---- MODULE Spec2Model ----
(***************************************************************************)
(* OvenMediaUI: configuration management with versioned snapshots and      *)
(* rollback.  The model covers the XML codec (services/xml_parser.py), the *)
(* configuration manager (services/config_manager.py), the snapshot model  *)
(* (models/configuration.py) and the two routes that change the live       *)
(* Server.xml (api/server.py).                                             *)
(*                                                                         *)
(* Text is a sequence of tokens (XML declaration, open tag, close tag,     *)
(* character data); character data and attribute values are sequences of   *)
(* atoms.  A parsed document is the value xmltodict builds: None, a        *)
(* string, a dict (ordered key/value items) or a list.  A dict key is a    *)
(* sequence of atoms: <<"@", n>> for attribute n, <<"#text">> for          *)
(* character data, <<n>> for child element n.                              *)
(***************************************************************************)
EXTENDS Integers, Sequences, FiniteSets, TLC

(***************************************************************************)
(* Bounds of the model.                                                    *)
(***************************************************************************)
\* requests the console handles in one run
MaxRequests == 4
\* direct calls of a ConfigManager in one run
MaxCalls == 2
\* I/O and database failures in one run
MaxFaults == 1
\* seconds the clock runs
MaxClock == 1
\* children of one element in the texts given to the codec
MaxKids == 2
\* requests started in a run with two requests in flight
MaxConcurrent == 2
\* requests taken in the console specification
MaxConsole == 2

(***************************************************************************)
(* Tokens of an XML text.                                                  *)
(***************************************************************************)
Decl == [k |-> "decl", tag |-> "", attrs |-> <<>>, s |-> <<>>]
Open(tag, attrs) == [k |-> "open", tag |-> tag, attrs |-> attrs, s |-> <<>>]
Close(tag) == [k |-> "close", tag |-> tag, attrs |-> <<>>, s |-> <<>>]
Text(s) == [k |-> "text", tag |-> "", attrs |-> <<>>, s |-> s]

NL == "\n"
Indent == "  "
Whitespace == {" ", NL, Indent}

(***************************************************************************)
(* Values of a parsed document.                                            *)
(***************************************************************************)
VNone == [t |-> "none", s |-> <<>>, items |-> <<>>, elems |-> <<>>]
VStr(s) == [t |-> "str", s |-> s, items |-> <<>>, elems |-> <<>>]
VDict(items) == [t |-> "dict", s |-> <<>>, items |-> items, elems |-> <<>>]
VList(elems) == [t |-> "list", s |-> <<>>, items |-> <<>>, elems |-> elems]

AttrKey(n) == <<"@", n>>
CDataKey == <<"#text">>
ElemKey(n) == <<n>>

IsDict(v) == v.t = "dict"
IsList(v) == v.t = "list"
IsStr(v) == v.t = "str"

\* key in d, for a dict d
HasKey(d, key) == \E i \in 1..Len(d.items) : d.items[i][1] = key

\* d[key], for a dict d holding key
Get(d, key) ==
    d.items[CHOOSE i \in 1..Len(d.items) : d.items[i][1] = key][2]

\* d[key] = v: replaces in place, or appends a new key at the end
Put(d, key, v) ==
    IF HasKey(d, key)
    THEN VDict([i \in 1..Len(d.items) |->
                  IF d.items[i][1] = key THEN <<key, v>> ELSE d.items[i]])
    ELSE VDict(Append(d.items, <<key, v>>))

\* str.strip() on a sequence of atoms
RECURSIVE LStrip(_)
LStrip(s) ==
    IF s # <<>> /\ Head(s) \in Whitespace THEN LStrip(Tail(s)) ELSE s

RECURSIVE RStrip(_)
RStrip(s) ==
    IF s # <<>> /\ s[Len(s)] \in Whitespace
    THEN RStrip(SubSeq(s, 1, Len(s) - 1))
    ELSE s

Strip(s) == RStrip(LStrip(s))

\* sub in s, for two strings
IsSubstring(sub, s) ==
    \E i \in 1..(Len(s) + 1) :
        /\ i + Len(sub) - 1 <= Len(s)
        /\ SubSeq(s, i, i + Len(sub) - 1) = sub

(***************************************************************************)
(* xmltodict.parse: the expat walk with xmltodict's handlers.              *)
(* A frame of the stack is an open element: its tag, the item built so far *)
(* (hasItem says whether item is not None) and the character data seen.    *)
(***************************************************************************)
Frame(tag, hasItem, item, data) ==
    [tag |-> tag, hasItem |-> hasItem, item |-> item, data |-> data]

\* _DictSAXHandler.push_data
PushData(hasItem, item, key, data) ==
    LET d == IF hasItem THEN item ELSE VDict(<<>>)
    IN  IF HasKey(d, key)
        THEN LET old == Get(d, key)
             IN  IF IsList(old)
                 THEN Put(d, key, VList(Append(old.elems, data)))
                 ELSE Put(d, key, VList(<<old, data>>))
        ELSE Put(d, key, data)

\* the attributes of a start tag, as the element's first items
AttrItems(attrs) ==
    [i \in 1..Len(attrs) |-> <<AttrKey(attrs[i][1]), VStr(attrs[i][2])>>]

UniqueAttrs(attrs) ==
    \A i, j \in 1..Len(attrs) : attrs[i][1] = attrs[j][1] => i = j

\* endElement with strip_whitespace off
ElementValue_NoStrip(fr) ==
    IF fr.hasItem
    THEN IF fr.data # <<>>
         THEN PushData(TRUE, fr.item, CDataKey, VStr(fr.data))
         ELSE fr.item
    ELSE IF fr.data # <<>> THEN VStr(fr.data) ELSE VNone

\* _DictSAXHandler.endElement: the value of the element just closed
ElementValue(fr) ==
    LET data == Strip(fr.data)
    IN  IF fr.hasItem
        THEN IF data # <<>>
             THEN PushData(TRUE, fr.item, CDataKey, VStr(data))
             ELSE fr.item
        ELSE IF data # <<>> THEN VStr(data) ELSE VNone

ParseFail == [ok |-> FALSE, doc |-> VNone]

RECURSIVE Scan(_, _, _, _, _)
Scan(toks, i, stack, hasRoot, root) ==
    IF i > Len(toks)
    THEN IF stack = <<>> /\ hasRoot THEN [ok |-> TRUE, doc |-> root] ELSE ParseFail
    ELSE LET tok == toks[i]
             top == stack[Len(stack)]
             rest == SubSeq(stack, 1, Len(stack) - 1)
         IN  CASE tok.k = "decl" ->
                    IF i = 1 THEN Scan(toks, i + 1, stack, hasRoot, root) ELSE ParseFail
               [] tok.k = "text" ->
                    IF stack = <<>>
                    THEN IF Strip(tok.s) = <<>>
                         THEN Scan(toks, i + 1, stack, hasRoot, root)
                         ELSE ParseFail
                    ELSE Scan(toks, i + 1,
                              Append(rest, Frame(top.tag, top.hasItem, top.item,
                                                 top.data \o tok.s)),
                              hasRoot, root)
               [] tok.k = "open" ->
                    IF (stack = <<>> /\ hasRoot) \/ ~UniqueAttrs(tok.attrs)
                    THEN ParseFail
                    ELSE Scan(toks, i + 1,
                              Append(stack, Frame(tok.tag, tok.attrs # <<>>,
                                                  VDict(AttrItems(tok.attrs)), <<>>)),
                              hasRoot, root)
               [] tok.k = "close" ->
                    IF stack = <<>> \/ top.tag # tok.tag
                    THEN ParseFail
                    ELSE LET v == ElementValue(top)
                         IN  IF rest = <<>>
                             THEN Scan(toks, i + 1, rest, TRUE,
                                       PushData(FALSE, VNone, ElemKey(tok.tag), v))
                             ELSE LET par == rest[Len(rest)]
                                      up == SubSeq(rest, 1, Len(rest) - 1)
                                  IN  Scan(toks, i + 1,
                                           Append(up, Frame(par.tag, TRUE,
                                                  PushData(par.hasItem, par.item,
                                                           ElemKey(tok.tag), v),
                                                  par.data)),
                                           hasRoot, root)

\* XMLParser.parse_string: [ok, doc]; ok = FALSE stands for ValueError
parse_string(xml_string) == Scan(xml_string, 1, <<>>, FALSE, VNone)

\* XMLParser.validate_xml: lxml accepts exactly the well-formed texts
validate_xml(xml_string) == Scan(xml_string, 1, <<>>, FALSE, VNone).ok

(***************************************************************************)
(* xmltodict.unparse(data, pretty=True, indent='  ')                       *)
(***************************************************************************)
RECURSIVE Flatten(_)
Flatten(ss) == IF ss = <<>> THEN <<>> ELSE Head(ss) \o Flatten(Tail(ss))

Repeat(n, a) == [i \in 1..n |-> a]

\* ignorableWhitespace(text): nothing is written for the empty string
WS(s) == IF s = <<>> THEN <<>> ELSE <<Text(s)>>

IsAttrKey(key) == Len(key) = 2 /\ key[1] = "@"

\* the items of a dict that satisfy Test, in order
RECURSIVE SelectItems(_, _)
SelectItems(items, attr) ==
    IF items = <<>> THEN <<>>
    ELSE LET it == Head(items)
             keep == IF attr THEN IsAttrKey(it[1])
                     ELSE ~IsAttrKey(it[1]) /\ it[1] # CDataKey
         IN  (IF keep THEN <<it>> ELSE <<>>) \o SelectItems(Tail(items), attr)

RECURSIVE Emit(_, _, _, _)
\* xmltodict._emit for one key: the tokens written
Emit(key, value, depth, pretty) ==
    LET vals == IF IsList(value) THEN value.elems ELSE <<value>>
        One(v0) ==
            LET v == CASE v0.t = "none" -> VDict(<<>>)
                       [] v0.t = "str" -> VDict(<< <<CDataKey, v0>> >>)
                       [] OTHER -> v0
                attrItems == SelectItems(v.items, TRUE)
                attrs == [i \in 1..Len(attrItems) |->
                            <<attrItems[i][1][2], attrItems[i][2].s>>]
                children == SelectItems(v.items, FALSE)
                kids == Flatten([i \in 1..Len(children) |->
                            Emit(children[i][1][1], children[i][2], depth + 1, pretty)])
            IN  (IF pretty THEN WS(Repeat(depth, Indent)) ELSE <<>>)
                \o <<Open(key, attrs)>>
                \o (IF pretty /\ children # <<>> THEN WS(<<NL>>) ELSE <<>>)
                \o kids
                \o (IF HasKey(v, CDataKey) THEN <<Text(Get(v, CDataKey).s)>> ELSE <<>>)
                \o (IF pretty /\ children # <<>> THEN WS(Repeat(depth, Indent)) ELSE <<>>)
                \o <<Close(key)>>
                \o (IF pretty /\ depth > 0 THEN WS(<<NL>>) ELSE <<>>)
    IN  Flatten([i \in 1..Len(vals) |-> One(vals[i])])

\* unparse raises ValueError unless the document has exactly one root
CanUnparse(data) ==
    /\ IsDict(data)
    /\ Len(data.items) = 1
    /\ Len(data.items[1][1]) = 1
    /\ IsList(data.items[1][2]) => Len(data.items[1][2].elems) = 1

\* XMLParser.dict_to_xml: [ok, xml]; ok = FALSE stands for ValueError
dict_to_xml(data, pretty) ==
    IF CanUnparse(data)
    THEN [ok |-> TRUE,
          xml |-> <<Decl, Text(<<NL>>)>>
                  \o Emit(data.items[1][1][1], data.items[1][2], 0, pretty)]
    ELSE [ok |-> FALSE, xml |-> <<>>]

(***************************************************************************)
(* ConfigManager.validate_config                                           *)
(***************************************************************************)
\* Python's "key in v".  The text of a key is its atoms, so '@version' is
\* the two atoms "@", "version".  none stands for TypeError.
PyIn(key, v) ==
    CASE v.t = "dict" -> IF HasKey(v, key) THEN "yes" ELSE "no"
      [] v.t = "str" -> IF IsSubstring(key, v.s) THEN "yes" ELSE "no"
      [] v.t = "list" ->
            IF \E i \in 1..Len(v.elems) : v.elems[i] = VStr(key) THEN "yes" ELSE "no"
      [] OTHER -> "raise"

Valid == [raised |-> FALSE, ok |-> TRUE, error |-> "None"]
Invalid(msg) == [raised |-> FALSE, ok |-> FALSE, error |-> msg]
\* an exception leaves the block
Raised == [raised |-> TRUE, ok |-> FALSE, error |-> ""]

\* lines 81-103: the body of the try block
ValidateTry(config) ==
    LET xml == dict_to_xml(config, TRUE)
    IN  IF ~xml.ok THEN Raised
        ELSE IF ~validate_xml(xml.xml) THEN Invalid("XML validation error")
        ELSE IF PyIn(ElemKey("Server"), config) = "raise" THEN Raised
        ELSE IF PyIn(ElemKey("Server"), config) = "no"
             THEN Invalid("Missing required 'Server' root element")
        ELSE LET server == Get(config, ElemKey("Server"))
             IN  IF PyIn(AttrKey("version"), server) = "raise" THEN Raised
                 ELSE IF PyIn(AttrKey("version"), server) = "no"
                 THEN Invalid("Missing server version attribute")
                 ELSE IF PyIn(ElemKey("Bind"), server) = "no"
                 THEN Invalid("Missing 'Bind' section in configuration")
                 ELSE Valid

\* the try block without its except clause
validate_config_NoExcept(config) == ValidateTry(config)

\* lines 105-106: except Exception turns every exception into a false result
validate_config(config) ==
    LET r == ValidateTry(config)
    IN  IF r.raised THEN Invalid("Validation error") ELSE r

(***************************************************************************)
(* Users and roles (models/user.py)                                        *)
(***************************************************************************)
ROLE_ADMIN == "admin"
ROLE_OPERATOR == "operator"
ROLE_VIEWER == "viewer"

\* the users table: id -> role, id -> username; "guest" is a role that
\* has_permission does not know
UserRole == <<ROLE_OPERATOR, ROLE_VIEWER, "guest", ROLE_ADMIN>>
UserName == <<"operator", "viewer", "guest", "admin">>
\* the users who send the requests of the configuration specifications
Users == {u \in DOMAIN UserRole : UserRole[u] \in {ROLE_OPERATOR, ROLE_VIEWER}}
\* all users
Accounts == DOMAIN UserRole

\* a permission table in which the viewer may write
has_permission_ViewerWrites(role, permission) ==
    permission \in (CASE role = ROLE_ADMIN -> {"read", "write", "delete", "manage_users"}
                      [] role = ROLE_OPERATOR -> {"read", "write"}
                      [] role = ROLE_VIEWER -> {"read", "write"}
                      [] OTHER -> {})

has_permission(role, permission) ==
    permission \in (CASE role = ROLE_ADMIN -> {"read", "write", "delete", "manage_users"}
                      [] role = ROLE_OPERATOR -> {"read", "write"}
                      [] role = ROLE_VIEWER -> {"read"}
                      [] OTHER -> {})

is_admin(role) == role = ROLE_ADMIN
is_operator(role) == role \in {ROLE_ADMIN, ROLE_OPERATOR}

(***************************************************************************)
(* Sample texts: request bodies and installed Server.xml files.            *)
(***************************************************************************)
Version8 == << <<"version", <<"8">> >> >>

XmlA == <<Open("Server", Version8), Open("Bind", <<>>), Text(<<"a">>), Close("Bind"),
          Close("Server")>>
XmlB == <<Open("Server", Version8), Open("Bind", <<>>), Text(<<"b">>), Close("Bind"),
          Close("Server")>>
XmlNoBind == <<Open("Server", Version8), Open("Name", <<>>), Text(<<"n">>), Close("Name"),
               Close("Server")>>
XmlUnclosed == <<Open("Server", Version8), Open("Bind", <<>>)>>

\* bodies of PUT /config
RequestBodies == {XmlB, XmlNoBind, XmlUnclosed}

(***************************************************************************)
(* State                                                                   *)
(***************************************************************************)
VARIABLES
    fileExists,   \* os.path.exists(xml_path)
    live,         \* content of Server.xml
    backups,      \* backup files: timestamp -> content
    now,          \* datetime.now(), in seconds
    snapshots,    \* committed rows of configuration_snapshots, by id
    audit,        \* committed rows of audit_logs
    session,      \* per request: rows added to db.session, not yet committed
    pc,           \* per request: position in its handler
    loc,          \* per request: local variables of the handler
    resp,         \* per request: the response of the finished handler
    nreq,         \* requests started
    faults,       \* I/O and database failures injected
    settings,     \* committed rows of settings: key -> value
    app,          \* the Flask application: config and ome_client
    remote,       \* what the media server has carried out, in order
    users         \* committed rows of users, by id

\* the state outside configuration management
console == <<settings, app, remote, users>>

vars == <<fileExists, live, backups, now, snapshots, audit, session, pc, loc, resp,
          nreq, faults, settings, app, remote, users>>

Procs == {"r1", "r2"}
\* the requests of the sequential specifications
SeqProcs == {"r1"}

NoBackups == [t \in {} |-> <<>>]

(***************************************************************************)
(* Settings, application config and remote client at start-up              *)
(* (models/settings.py, config.py, app.py, services/ome_client.py)         *)
(***************************************************************************)
\* texts are sequences of characters; of a URL only the host and the
\* slashes that follow it are kept
UrlA == <<"a">>
UrlB == <<"b">>
UrlBSlash == <<"b", "/">>
HIDDEN == <<"*">>

\* the rows of settings that configure the remote client; is_secret is set
\* when the row is created and never changed
SettingKeys == {"ome_api_url", "ome_api_access_token"}
is_secret(key) == key = "ome_api_access_token"

\* initialize_defaults, lines 83-84
DefaultSettings == [ome_api_url |-> UrlA, ome_api_access_token |-> <<>>]

\* str.rstrip('/')
RECURSIVE rstrip(_)
rstrip(text) ==
    IF text # <<>> /\ text[Len(text)] = "/" THEN rstrip(SubSeq(text, 1, Len(text) - 1))
    ELSE text

\* OMEClient.__init__, lines 21-42
OMEClient(api_url, access_token) ==
    [api_url |-> rstrip(api_url), access_token |-> access_token]

\* Config.init_app, lines 52-53: the config keys of the remote client are
\* read from the settings rows
init_app(a, rows) ==
    [a EXCEPT !.config = [OME_API_URL |-> rows.ome_api_url,
                          OME_API_ACCESS_TOKEN |-> rows.ome_api_access_token]]

\* create_app, lines 59-68: settings loaded, then the client is built
create_app ==
    LET a == init_app([config |-> <<>>, ome_client |-> <<>>], DefaultSettings)
    IN  [a EXCEPT !.ome_client = OMEClient(a.config.OME_API_URL,
                                           a.config.OME_API_ACCESS_TOKEN)]

\* the console after installation: default settings, the users of UserRole,
\* nothing asked of the media server yet
Installed ==
    /\ settings = DefaultSettings
    /\ app = create_app
    /\ remote = <<>>
    /\ users = [i \in DOMAIN UserRole |-> [username |-> UserName[i], role |-> UserRole[i]]]

NoLoc == [op |-> "none", user |-> 0, new_xml |-> <<>>, old_xml |-> <<>>,
          version |-> 0, snapshot_id |-> 0, config |-> VNone, backup |-> FALSE,
          backup_path |-> -1, live0 |-> <<>>, exists0 |-> FALSE,
          backups0 |-> NoBackups, failed |-> "none", vhost_name |-> <<>>,
          vhost_config |-> VNone, out |-> VNone,
          exchange |-> [kind |-> "none", status |-> 0, body |-> ""], text |-> <<>>,
          flags0 |-> <<>>, now0 |-> 0, target |-> <<>>, audit0 |-> 0, remote0 |-> 0,
          settings0 |-> DefaultSettings, users0 |-> 0]

\* status: of an HTTP response of the console; result, error: of a call;
\* code, body: what an exception carries; fields: the keys of a JSON result;
\* api_url: the URL a status result reports; seen: the texts a result shows
NoResp == [status |-> 0, result |-> "none", error |-> "", code |-> 0, body |-> "",
           fields |-> {}, count |-> 0, api_url |-> <<>>, seen |-> {}]
Http(status) == [NoResp EXCEPT !.status = status]
Returned(result) == [NoResp EXCEPT !.result = result]
\* a call that returns the pair (result, error), or ends in an exception
ReturnedPair(result, error) == [NoResp EXCEPT !.result = result, !.error = error]
Propagated(exception) == [NoResp EXCEPT !.result = "raise", !.error = exception]

Idle(p) == pc[p] \in {"idle", "done"}

\* the is_active column of the snapshots, by id
Flags(rows) == [i \in 1..Len(rows) |-> rows[i].is_active]

\* the locals of a request that starts now; live0, exists0 and backups0 keep
\* the files as the request found them, flags0 the is_active column, now0
\* the clock, audit0, remote0 and users0 the lengths of the audit log, of the
\* media server's record and of the users table, settings0 the settings
Start(op, user) ==
    [NoLoc EXCEPT !.op = op, !.user = user, !.live0 = live, !.exists0 = fileExists,
                  !.backups0 = backups, !.flags0 = Flags(snapshots), !.now0 = now,
                  !.audit0 = Len(audit), !.remote0 = Len(remote),
                  !.settings0 = settings, !.users0 = Len(users)]

(***************************************************************************)
(* ConfigurationSnapshot (models/configuration.py)                         *)
(***************************************************************************)
Max(S) == CHOOSE x \in S : \A y \in S : y <= x

\* first() without the descending order: the oldest row's version
get_latest_version_first(rows) ==
    IF rows = <<>> THEN 0 ELSE rows[1].version

get_latest_version(rows) ==
    IF rows = <<>> THEN 0 ELSE Max({rows[i].version : i \in 1..Len(rows)})

\* the row update_config adds to the session
NewSnapshot(version, description, data, user) ==
    [version |-> version, description |-> description,
     configuration_type |-> "server_xml", configuration_data |-> data,
     user_id |-> user, is_active |-> FALSE]

\* snapshot.activate(): UPDATE ... SET is_active = false WHERE is_active;
\* self.is_active = True; commit
\* the bulk UPDATE left out: the others stay active
activate_NoDeactivate(rows, id) ==
    [i \in 1..Len(rows) |-> [rows[i] EXCEPT !.is_active = (@ \/ i = id)]]

\* self.is_active = True set before the bulk UPDATE, which then clears it too
activate_SelfFirst(rows, id) ==
    [i \in 1..Len(rows) |-> [rows[i] EXCEPT !.is_active = FALSE]]

\* activation that stamps the activated row with a new version
activate_NewVersion(rows, id) ==
    [i \in 1..Len(rows) |->
        [rows[i] EXCEPT !.is_active = (i = id),
                        !.version = IF i = id THEN get_latest_version(rows) + 1 ELSE @]]

activate(rows, id) ==
    [i \in 1..Len(rows) |-> [rows[i] EXCEPT !.is_active = (i = id)]]

get_active(rows) == {i \in 1..Len(rows) : rows[i].is_active}

\* AuditLog.log_action: the row added; of the description the texts put
\* into it are kept
LogRow(user, action, resource_type, resource_id, description) ==
    [user_id |-> user, action |-> action, resource_type |-> resource_type,
     resource_id |-> resource_id, description |-> description]

AuditRow(user, action, resource_id) ==
    LogRow(user, action, "server_config", resource_id, <<>>)

\* the console starts on an installed Server.xml, or with none
Init ==
    /\ \/ fileExists = TRUE /\ live = XmlA
       \/ fileExists = FALSE /\ live = <<>>
    /\ backups = NoBackups
    /\ now = 0
    /\ snapshots = <<>>
    /\ audit = <<>>
    /\ session = [p \in Procs |-> <<>>]
    /\ pc = [p \in Procs |-> "idle"]
    /\ loc = [p \in Procs |-> NoLoc]
    /\ resp = [p \in Procs |-> NoResp]
    /\ nreq = 0
    /\ faults = 0
    /\ Installed

\* one more second on the clock.  The clock is read at one point of a request
\* (the backup path), so time passing between requests covers every case.
Tick ==
    /\ now < MaxClock
    /\ \A p \in Procs : Idle(p)
    /\ now' = now + 1
    /\ UNCHANGED <<console, fileExists, live, backups, snapshots, audit, session, pc, loc, resp,
                   nreq, faults>>

\* a handler ends with a response; l is its locals at that point
Finish(p, r, l) ==
    /\ pc' = [pc EXCEPT ![p] = "done"]
    /\ resp' = [resp EXCEPT ![p] = r]
    /\ loc' = [loc EXCEPT ![p] = l]

\* a handler goes on at position next with locals l
Goto(p, next, l) ==
    /\ pc' = [pc EXCEPT ![p] = next]
    /\ loc' = [loc EXCEPT ![p] = l]
    /\ UNCHANGED resp

\* an I/O or database failure may be injected
CanFail == faults < MaxFaults

\* A write that fails: open() fails and the file is untouched (n = -1), or
\* open() truncates the file and the write stops after n tokens.  The cuts
\* taken are the empty file and half of the text.
Cuts(xml) == {-1, 0, Len(xml) \div 2}

(***************************************************************************)
(* PUT /config: update_config (api/server.py)                              *)
(***************************************************************************)
\* lines 63-81: permission check, request body check, syntax check
UC_Begin(p, user, hasConfig, new_config_xml) ==
    /\ Idle(p)
    /\ nreq < MaxRequests
    /\ nreq' = nreq + 1
    /\ LET l == [Start("update_config", user) EXCEPT !.new_xml = new_config_xml]
       IN  IF ~has_permission(UserRole[user], "write")
           THEN Finish(p, Http(403), [l EXCEPT !.failed = "permission"])
           ELSE IF ~hasConfig
           THEN Finish(p, Http(400), [l EXCEPT !.failed = "body"])
           ELSE IF ~validate_xml(new_config_xml)
           THEN Finish(p, Http(400), [l EXCEPT !.failed = "syntax"])
           ELSE Goto(p, "uc_read", l)
    /\ UNCHANGED <<console, fileExists, live, backups, now, snapshots, audit, session, faults>>

\* the except clause, lines 120-123: rollback and 500
UC_Except(p, failed) ==
    /\ session' = [session EXCEPT ![p] = <<>>]
    /\ Finish(p, Http(500), [loc[p] EXCEPT !.failed = failed])

\* lines 84-85: read the live file
UC_Read(p) ==
    /\ pc[p] = "uc_read"
    /\ IF fileExists
       THEN /\ Goto(p, "uc_version", [loc[p] EXCEPT !.old_xml = live])
            /\ UNCHANGED session
       ELSE UC_Except(p, "read")
    /\ UNCHANGED <<console, fileExists, live, backups, now, snapshots, audit, nreq, faults>>

\* lines 87-96: next version, snapshot added to the session
UC_Version(p) ==
    /\ pc[p] = "uc_version"
    /\ LET version == get_latest_version(snapshots) + 1
       IN  /\ session' = [session EXCEPT ![p] =
                  Append(@, NewSnapshot(version, "Configuration update",
                                        loc[p].old_xml, loc[p].user))]
           /\ Goto(p, "uc_write", [loc[p] EXCEPT !.version = version])
    /\ UNCHANGED <<console, fileExists, live, backups, now, snapshots, audit, nreq, faults>>

\* lines 99-100: the live file is overwritten with the request body
UC_Write(p) ==
    /\ pc[p] = "uc_write"
    /\ live' = loc[p].new_xml
    /\ fileExists' = TRUE
    /\ Goto(p, "uc_commit", loc[p])
    /\ UNCHANGED <<console, backups, now, snapshots, audit, session, nreq, faults>>

\* lines 99-100 fail: open() fails (n = -1) or the write stops after n tokens
UC_WriteFail(p) ==
    /\ pc[p] = "uc_write"
    /\ CanFail
    /\ faults' = faults + 1
    /\ \E n \in Cuts(loc[p].new_xml) :
          IF n = -1
          THEN UNCHANGED <<live, fileExists>>
          ELSE /\ live' = SubSeq(loc[p].new_xml, 1, n)
               /\ fileExists' = TRUE
    /\ UC_Except(p, "write")
    /\ UNCHANGED <<console, backups, now, snapshots, audit, nreq>>

\* the version given by the store at commit, as a sequence would
Commit_Renumbered(rows, added) ==
    rows \o [i \in 1..Len(added) |->
               [added[i] EXCEPT !.version = get_latest_version(rows) + i]]

\* db.session.commit(): the rows of the session get the next ids
Commit(rows, added) == rows \o added

\* line 103: the snapshot is committed
UC_Commit(p) ==
    /\ pc[p] = "uc_commit"
    /\ snapshots' = Commit(snapshots, session[p])
    /\ session' = [session EXCEPT ![p] = <<>>]
    /\ Goto(p, "uc_audit", loc[p])
    /\ UNCHANGED <<console, fileExists, live, backups, now, audit, nreq, faults>>

\* line 103 fails
UC_CommitFail(p) ==
    /\ pc[p] = "uc_commit"
    /\ CanFail
    /\ faults' = faults + 1
    /\ UC_Except(p, "commit")
    /\ UNCHANGED <<console, fileExists, live, backups, now, snapshots, audit, nreq>>

\* lines 106-118: audit entry, 200
UC_Audit(p) ==
    /\ pc[p] = "uc_audit"
    /\ audit' = Append(audit, AuditRow(loc[p].user, "update", 0))
    /\ Finish(p, Http(200), loc[p])
    /\ UNCHANGED <<console, fileExists, live, backups, now, snapshots, session, nreq, faults>>

\* lines 106-113 fail
UC_AuditFail(p) ==
    /\ pc[p] = "uc_audit"
    /\ CanFail
    /\ faults' = faults + 1
    /\ UC_Except(p, "audit")
    /\ UNCHANGED <<console, fileExists, live, backups, now, snapshots, audit, nreq>>

(***************************************************************************)
(* ConfigManager.write_config and restore_from_snapshot                    *)
(***************************************************************************)
\* an exception leaves a ConfigManager call: the route answers 500, a direct
\* caller sees the exception
Raise(p, failed) ==
    Finish(p, IF loc[p].op = "restore_snapshot" THEN Http(500) ELSE Returned("raise"),
           [loc[p] EXCEPT !.failed = failed])

\* the result of validate_config ignored
RestoreCheck_ParseOnly(xml_string) ==
    IF ~parse_string(xml_string).ok THEN "parse" ELSE "ok"

\* restore_from_snapshot lines 188-192: parse and validate; "ok" or the failure
RestoreCheck(xml_string) ==
    LET parsed == parse_string(xml_string)
    IN  IF ~parsed.ok THEN "parse"
        ELSE IF ~validate_config(parsed.doc).ok THEN "invalid"
        ELSE "ok"

\* the copy left out
WC_Backup_NoCopy(p) ==
    /\ pc[p] = "wc_backup"
    /\ Goto(p, "wc_write", loc[p])
    /\ UNCHANGED <<console, fileExists, live, backups, now, snapshots, audit, session, nreq, faults>>

\* a backup path that is in use is not taken again: the copy goes to the
\* first free path after it
WC_Backup_FreshPath(p) ==
    /\ pc[p] = "wc_backup"
    /\ IF loc[p].backup /\ fileExists
       THEN LET path == IF now \in DOMAIN backups THEN Max(DOMAIN backups) + 1 ELSE now
            IN  /\ backups' = (path :> live) @@ backups
                /\ Goto(p, "wc_write", [loc[p] EXCEPT !.backup_path = path])
       ELSE /\ UNCHANGED backups
            /\ Goto(p, "wc_write", loc[p])
    /\ UNCHANGED <<console, fileExists, live, now, snapshots, audit, session, nreq, faults>>

\* write_config lines 57-60: the backup copy
WC_Backup(p) ==
    /\ pc[p] = "wc_backup"
    /\ IF loc[p].backup /\ fileExists
       THEN /\ backups' = (now :> live) @@ backups
            /\ Goto(p, "wc_write", [loc[p] EXCEPT !.backup_path = now])
       ELSE /\ UNCHANGED backups
            /\ Goto(p, "wc_write", loc[p])
    /\ UNCHANGED <<console, fileExists, live, now, snapshots, audit, session, nreq, faults>>

\* shutil.copy2 fails
WC_BackupFail(p) ==
    /\ pc[p] = "wc_backup"
    /\ loc[p].backup /\ fileExists
    /\ CanFail
    /\ faults' = faults + 1
    /\ Raise(p, "backup")
    /\ UNCHANGED <<console, fileExists, live, backups, now, snapshots, audit, session, nreq>>

\* what follows a successful write_config
AfterWrite(p) ==
    IF loc[p].op = "restore_snapshot"
    THEN Goto(p, "rs_activate", loc[p])
    ELSE Finish(p, Returned("true"), loc[p])

\* write_config that returns True without writing the file
WC_Write_KeepsFile(p) ==
    /\ pc[p] = "wc_write"
    /\ UNCHANGED <<live, fileExists>>
    /\ AfterWrite(p)
    /\ UNCHANGED <<console, backups, now, snapshots, audit, session, nreq, faults>>

\* write_config line 63, XMLParser.write_file
WC_Write(p) ==
    /\ pc[p] = "wc_write"
    /\ LET xml == dict_to_xml(loc[p].config, TRUE)
       IN  IF xml.ok
           THEN /\ live' = xml.xml
                /\ fileExists' = TRUE
                /\ AfterWrite(p)
           ELSE /\ UNCHANGED <<live, fileExists>>
                /\ Raise(p, "serialize")
    /\ UNCHANGED <<console, backups, now, snapshots, audit, session, nreq, faults>>

\* write_file fails: open() fails (n = -1) or the write stops after n tokens
WC_WriteFail(p) ==
    /\ pc[p] = "wc_write"
    /\ dict_to_xml(loc[p].config, TRUE).ok
    /\ CanFail
    /\ faults' = faults + 1
    /\ LET xml == dict_to_xml(loc[p].config, TRUE).xml
       IN  \E n \in Cuts(xml) :
              IF n = -1
              THEN UNCHANGED <<live, fileExists>>
              ELSE /\ live' = SubSeq(xml, 1, n)
                   /\ fileExists' = TRUE
    /\ Raise(p, "write")
    /\ UNCHANGED <<console, backups, now, snapshots, audit, session, nreq>>

(***************************************************************************)
(* POST /snapshots/<id>/restore: restore_snapshot (api/server.py)          *)
(***************************************************************************)
\* snapshot.activate() placed before restore_from_snapshot
RS_Begin_ActivateFirst(p, user, snapshot_id) ==
    /\ Idle(p)
    /\ nreq < MaxRequests
    /\ nreq' = nreq + 1
    /\ LET l == [Start("restore_snapshot", user) EXCEPT !.snapshot_id = snapshot_id]
       IN  IF ~has_permission(UserRole[user], "write")
           THEN /\ Finish(p, Http(403), [l EXCEPT !.failed = "permission"])
                /\ UNCHANGED snapshots
           ELSE IF snapshot_id \notin 1..Len(snapshots)
           THEN /\ Finish(p, Http(404), [l EXCEPT !.failed = "missing"])
                /\ UNCHANGED snapshots
           ELSE LET xml_string == snapshots[snapshot_id].configuration_data
                    check == RestoreCheck(xml_string)
                IN  /\ snapshots' = activate(snapshots, snapshot_id)
                    /\ IF check # "ok"
                       THEN Finish(p, Http(500), [l EXCEPT !.failed = check])
                       ELSE Goto(p, "wc_backup",
                                 [l EXCEPT !.config = parse_string(xml_string).doc,
                                           !.backup = TRUE])
    /\ UNCHANGED <<console, fileExists, live, backups, now, audit, session, faults>>

\* lines 175-189 and restore_from_snapshot up to the call of write_config
RS_Begin(p, user, snapshot_id) ==
    /\ Idle(p)
    /\ nreq < MaxRequests
    /\ nreq' = nreq + 1
    /\ LET l == [Start("restore_snapshot", user) EXCEPT !.snapshot_id = snapshot_id]
       IN  IF ~has_permission(UserRole[user], "write")
           THEN Finish(p, Http(403), [l EXCEPT !.failed = "permission"])
           ELSE IF snapshot_id \notin 1..Len(snapshots)
           THEN Finish(p, Http(404), [l EXCEPT !.failed = "missing"])
           ELSE LET xml_string == snapshots[snapshot_id].configuration_data
                    check == RestoreCheck(xml_string)
                IN  IF check # "ok"
                    THEN Finish(p, Http(500), [l EXCEPT !.failed = check])
                    ELSE Goto(p, "wc_backup",
                              [l EXCEPT !.config = parse_string(xml_string).doc,
                                        !.backup = TRUE])
    /\ UNCHANGED <<console, fileExists, live, backups, now, snapshots, audit, session, faults>>

\* activate() without a transaction: the bulk UPDATE and the UPDATE of the
\* row itself are committed one after the other
RS_Activate_Autocommit(p) ==
    /\ pc[p] = "rs_activate"
    /\ IF loc[p].failed = "none"
       THEN /\ snapshots' = [i \in 1..Len(snapshots) |->
                                [snapshots[i] EXCEPT !.is_active = FALSE]]
            /\ Goto(p, "rs_activate", [loc[p] EXCEPT !.failed = "cleared"])
       ELSE /\ snapshots' = activate_NoDeactivate(snapshots, loc[p].snapshot_id)
            /\ Goto(p, "rs_audit", [loc[p] EXCEPT !.failed = "none"])
    /\ UNCHANGED <<console, fileExists, live, backups, now, audit, session, nreq, faults>>

\* line 192: snapshot.activate()
RS_Activate(p) ==
    /\ pc[p] = "rs_activate"
    /\ snapshots' = activate(snapshots, loc[p].snapshot_id)
    /\ Goto(p, "rs_audit", loc[p])
    /\ UNCHANGED <<console, fileExists, live, backups, now, audit, session, nreq, faults>>

\* line 192 fails: the transaction is not committed
RS_ActivateFail(p) ==
    /\ pc[p] = "rs_activate"
    /\ CanFail
    /\ faults' = faults + 1
    /\ Raise(p, "activate")
    /\ UNCHANGED <<console, fileExists, live, backups, now, snapshots, audit, session, nreq>>

\* lines 195-208: audit entry, 200
RS_Audit(p) ==
    /\ pc[p] = "rs_audit"
    /\ audit' = Append(audit, AuditRow(loc[p].user, "rollback", loc[p].snapshot_id))
    /\ Finish(p, Http(200), loc[p])
    /\ UNCHANGED <<console, fileExists, live, backups, now, snapshots, session, nreq, faults>>

\* lines 195-203 fail
RS_AuditFail(p) ==
    /\ pc[p] = "rs_audit"
    /\ CanFail
    /\ faults' = faults + 1
    /\ Raise(p, "audit")
    /\ UNCHANGED <<console, fileExists, live, backups, now, snapshots, audit, session, nreq>>

(***************************************************************************)
(* ConfigManager called directly: write_config, restore_from_snapshot,     *)
(* update_virtual_host (services/config_manager.py)                        *)
(***************************************************************************)
\* v.get(key, default): ok = FALSE stands for AttributeError (v is no dict)
PyGet(v, key, default) ==
    IF ~IsDict(v) THEN [ok |-> FALSE, val |-> VNone]
    ELSE [ok |-> TRUE, val |-> IF HasKey(v, key) THEN Get(v, key) ELSE default]

\* lines 143-147: the index of the first virtual host named vhost_name;
\* 0 when there is none, -1 when an entry met before it is no dict
RECURSIVE FindVhost(_, _, _)
FindVhost(vhosts, i, vhost_name) ==
    IF i > Len(vhosts) THEN 0
    ELSE IF ~IsDict(vhosts[i]) THEN -1
    ELSE IF PyGet(vhosts[i], ElemKey("Name"), VNone).val = VStr(vhost_name) THEN i
    ELSE FindVhost(vhosts, i + 1, vhost_name)

\* lines 136-139: the VirtualHost entry as a list.  A string or None there
\* cannot be walked as a list of dicts: ok = FALSE
VhostList(config) ==
    LET server == PyGet(config, ElemKey("Server"), VDict(<<>>))
        hosts == IF server.ok THEN PyGet(server.val, ElemKey("VirtualHosts"), VDict(<<>>))
                 ELSE server
        vhost == IF hosts.ok THEN PyGet(hosts.val, ElemKey("VirtualHost"), VList(<<>>))
                 ELSE hosts
    IN  IF ~vhost.ok THEN [ok |-> FALSE, single |-> FALSE, vhosts |-> <<>>]
        ELSE IF IsDict(vhost.val) THEN [ok |-> TRUE, single |-> TRUE, vhosts |-> <<vhost.val>>]
        ELSE IF IsList(vhost.val) THEN [ok |-> TRUE, single |-> FALSE, vhosts |-> vhost.val.elems]
        ELSE [ok |-> FALSE, single |-> FALSE, vhosts |-> <<>>]

\* lines 115-122 on the parsed configuration: the list returned, or
\* ok = FALSE for the AttributeError of .get on a value that is no dict
get_virtual_hosts(config) ==
    LET server == PyGet(config, ElemKey("Server"), VDict(<<>>))
        hosts == IF server.ok THEN PyGet(server.val, ElemKey("VirtualHosts"), VDict(<<>>))
                 ELSE server
        vhosts == IF hosts.ok THEN PyGet(hosts.val, ElemKey("VirtualHost"), VList(<<>>))
                  ELSE hosts
    IN  IF vhosts.ok /\ IsDict(vhosts.val) THEN [ok |-> TRUE, val |-> VList(<<vhosts.val>>)]
        ELSE vhosts

\* the singular form lost: VirtualHost is always written back as a list
UpdateVhost_AlwaysList(config, vhost_name, vhost_config) ==
    LET vl == VhostList(config)
        i == FindVhost(vl.vhosts, 1, vhost_name)
    IN  IF ~vl.ok \/ i = -1 THEN [status |-> "raise", config |-> config]
        ELSE IF i = 0 THEN [status |-> "notfound", config |-> config]
        ELSE LET server == Get(config, ElemKey("Server"))
                 hosts == Get(server, ElemKey("VirtualHosts"))
             IN  [status |-> "updated",
                  config |-> Put(config, ElemKey("Server"),
                                 Put(server, ElemKey("VirtualHosts"),
                                     Put(hosts, ElemKey("VirtualHost"),
                                         VList([vl.vhosts EXCEPT ![i] = vhost_config]))))]

\* lines 136-154 on the parsed configuration: "raise", "notfound" or
\* "updated" with the configuration to write
UpdateVhost(config, vhost_name, vhost_config) ==
    LET vl == VhostList(config)
        i == FindVhost(vl.vhosts, 1, vhost_name)
    IN  IF ~vl.ok \/ i = -1 THEN [status |-> "raise", config |-> config]
        ELSE IF i = 0 THEN [status |-> "notfound", config |-> config]
        ELSE LET vhosts == [vl.vhosts EXCEPT ![i] = vhost_config]
                 entry == IF vl.single THEN vhosts[1] ELSE VList(vhosts)
                 server == Get(config, ElemKey("Server"))
                 hosts == Get(server, ElemKey("VirtualHosts"))
             IN  [status |-> "updated",
                  config |-> Put(config, ElemKey("Server"),
                                 Put(server, ElemKey("VirtualHosts"),
                                     Put(hosts, ElemKey("VirtualHost"), entry)))]

Host(name) == << Open("VirtualHost", <<>>), Open("Name", <<>>), Text(<<name>>),
                 Close("Name"), Close("VirtualHost") >>

XmlOneHost == <<Open("Server", Version8), Open("Bind", <<>>), Text(<<"a">>), Close("Bind"),
                Open("VirtualHosts", <<>>)>> \o Host("a")
              \o <<Close("VirtualHosts"), Close("Server")>>

\* three virtual hosts, two of them with the same name
XmlThreeHosts == <<Open("Server", Version8), Open("Bind", <<>>), Text(<<"a">>), Close("Bind"),
                   Open("VirtualHosts", <<>>)>> \o Host("b") \o Host("a") \o Host("a")
                 \o <<Close("VirtualHosts"), Close("Server")>>
\* a server without virtual hosts: <VirtualHosts></VirtualHosts>
XmlNoHosts == <<Open("Server", Version8), Open("Bind", <<>>), Text(<<"a">>), Close("Bind"),
                Open("VirtualHosts", <<>>), Close("VirtualHosts"), Close("Server")>>

\* Server.xml files a ConfigManager may be pointed at
InstalledFiles == {XmlA, XmlNoBind, XmlOneHost, XmlThreeHosts, XmlNoHosts, XmlUnclosed}

\* documents handed to write_config; the empty dict cannot be serialized
Configs == {parse_string(x).doc : x \in {XmlA, XmlB, XmlNoBind}} \cup {VDict(<<>>)}

\* texts handed to restore_from_snapshot
SnapshotTexts == {XmlB, XmlNoBind, XmlUnclosed, XmlOneHost}

HostNames == {"a", "b", "z"}

\* replacement virtual hosts: a renamed host, and one without a Name
HostConfigs == {VDict(<< <<ElemKey("Name"), VStr(<<"c">>)>> >>),
                VDict(<< <<ElemKey("Port"), VStr(<<"p">>)>> >>)}

\* write_config(config, backup)
MG_WriteConfig(p, config, backup) ==
    /\ Idle(p)
    /\ nreq < MaxCalls
    /\ nreq' = nreq + 1
    /\ Goto(p, "wc_backup",
            [Start("write_config", 0) EXCEPT !.config = config, !.backup = backup])
    /\ UNCHANGED <<console, fileExists, live, backups, now, snapshots, audit, session, faults>>

\* restore_from_snapshot(xml_string), up to the call of write_config
MG_RestoreFromSnapshot(p, xml_string) ==
    /\ Idle(p)
    /\ nreq < MaxCalls
    /\ nreq' = nreq + 1
    /\ LET l == [Start("restore_from_snapshot", 0) EXCEPT !.new_xml = xml_string]
           check == RestoreCheck(xml_string)
       IN  IF check # "ok"
           THEN Finish(p, Returned("raise"), [l EXCEPT !.failed = check])
           ELSE Goto(p, "wc_backup",
                     [l EXCEPT !.config = parse_string(xml_string).doc, !.backup = TRUE])
    /\ UNCHANGED <<console, fileExists, live, backups, now, snapshots, audit, session, faults>>

\* update_virtual_host(vhost_name, vhost_config), up to the call of write_config
MG_UpdateVirtualHost(p, vhost_name, vhost_config) ==
    /\ Idle(p)
    /\ nreq < MaxCalls
    /\ nreq' = nreq + 1
    /\ LET l == [Start("update_virtual_host", 0) EXCEPT !.vhost_name = <<vhost_name>>,
                                                         !.vhost_config = vhost_config]
           parsed == parse_string(live)
           upd == UpdateVhost(parsed.doc, <<vhost_name>>, vhost_config)
       IN  IF ~fileExists THEN Finish(p, Returned("raise"), [l EXCEPT !.failed = "read"])
           ELSE IF ~parsed.ok THEN Finish(p, Returned("raise"), [l EXCEPT !.failed = "parse"])
           ELSE IF upd.status = "raise"
           THEN Finish(p, Returned("raise"), [l EXCEPT !.failed = "lookup"])
           ELSE IF upd.status = "notfound"
           THEN Finish(p, Returned("false"), [l EXCEPT !.failed = "notfound"])
           ELSE Goto(p, "wc_backup", [l EXCEPT !.config = upd.config, !.backup = TRUE])
    /\ UNCHANGED <<console, fileExists, live, backups, now, snapshots, audit, session, faults>>

\* get_virtual_hosts(): lines 113-122
MG_GetVirtualHosts(p) ==
    /\ Idle(p)
    /\ nreq < MaxCalls
    /\ nreq' = nreq + 1
    /\ LET l == Start("get_virtual_hosts", 0)
           parsed == parse_string(live)
           got == get_virtual_hosts(parsed.doc)
       IN  IF ~fileExists THEN Finish(p, Returned("raise"), [l EXCEPT !.failed = "read"])
           ELSE IF ~parsed.ok THEN Finish(p, Returned("raise"), [l EXCEPT !.failed = "parse"])
           ELSE IF ~got.ok THEN Finish(p, Returned("raise"), [l EXCEPT !.failed = "lookup"])
           ELSE Finish(p, Returned("value"), [l EXCEPT !.out = got.val])
    /\ UNCHANGED <<console, fileExists, live, backups, now, snapshots, audit, session, faults>>

\* a ConfigManager on an installed file, or on a path where no file is
InitMgr ==
    /\ \/ fileExists = TRUE /\ live \in InstalledFiles
       \/ fileExists = FALSE /\ live = <<>>
    /\ backups = NoBackups
    /\ now = 0
    /\ snapshots = <<>>
    /\ audit = <<>>
    /\ session = [p \in Procs |-> <<>>]
    /\ pc = [p \in Procs |-> "idle"]
    /\ loc = [p \in Procs |-> NoLoc]
    /\ resp = [p \in Procs |-> NoResp]
    /\ nreq = 0
    /\ faults = 0
    /\ Installed

NextMgr ==
    \/ Tick
    \/ \E p \in SeqProcs :
          \/ \E c \in Configs, b \in BOOLEAN : MG_WriteConfig(p, c, b)
          \/ \E x \in SnapshotTexts : MG_RestoreFromSnapshot(p, x)
          \/ \E n \in HostNames, c \in HostConfigs : MG_UpdateVirtualHost(p, n, c)
          \/ MG_GetVirtualHosts(p)
          \/ WC_Backup(p)
          \/ WC_BackupFail(p)
          \/ WC_Write(p)
          \/ WC_WriteFail(p)

SpecMgr == InitMgr /\ [][NextMgr]_vars

(***************************************************************************)
(* The console: requests handled one after another.                        *)
(***************************************************************************)
Next ==
    \/ Tick
    \/ \E p \in SeqProcs :
          \/ \E u \in Users, h \in BOOLEAN, x \in RequestBodies : UC_Begin(p, u, h, x)
          \/ UC_Read(p)
          \/ UC_Version(p)
          \/ UC_Write(p)
          \/ UC_WriteFail(p)
          \/ UC_Commit(p)
          \/ UC_CommitFail(p)
          \/ UC_Audit(p)
          \/ UC_AuditFail(p)
          \/ \E u \in Users, id \in 1..MaxRequests : RS_Begin(p, u, id)
          \/ WC_Backup(p)
          \/ WC_BackupFail(p)
          \/ WC_Write(p)
          \/ WC_WriteFail(p)
          \/ RS_Activate(p)
          \/ RS_ActivateFail(p)
          \/ RS_Audit(p)
          \/ RS_AuditFail(p)

Spec == Init /\ [][Next]_vars

(***************************************************************************)
(* Two requests in flight                                                  *)
(***************************************************************************)
\* the store after two updates made one after the other: XmlB was written
\* over XmlA and once more over itself
TwoSnapshots ==
    Commit(Commit(<<>>, <<NewSnapshot(1, "Configuration update", XmlA, 1)>>),
           <<NewSnapshot(2, "Configuration update", XmlB, 1)>>)

\* a console fresh after installation, or one that has handled two updates
InitConcurrent ==
    /\ \/ live = XmlA /\ snapshots = <<>> /\ audit = <<>>
       \/ /\ live = XmlB /\ snapshots = TwoSnapshots
          /\ audit = <<AuditRow(1, "update", 0), AuditRow(1, "update", 0)>>
    /\ fileExists = TRUE
    /\ backups = NoBackups
    /\ now = 0
    /\ session = [p \in Procs |-> <<>>]
    /\ pc = [p \in Procs |-> "idle"]
    /\ loc = [p \in Procs |-> NoLoc]
    /\ resp = [p \in Procs |-> NoResp]
    /\ nreq = 0
    /\ faults = 0
    /\ Installed

\* the steps of the requests of Procs, interleaved in any order
NextConcurrent ==
    \E p \in Procs :
        \/ /\ nreq < MaxConcurrent
           /\ \E u \in Users, h \in BOOLEAN, x \in RequestBodies : UC_Begin(p, u, h, x)
        \/ UC_Read(p)
        \/ UC_Version(p)
        \/ UC_Write(p)
        \/ UC_WriteFail(p)
        \/ UC_Commit(p)
        \/ UC_CommitFail(p)
        \/ UC_Audit(p)
        \/ UC_AuditFail(p)
        \/ /\ nreq < MaxConcurrent
           /\ \E u \in Users, id \in 1..MaxRequests : RS_Begin(p, u, id)
        \/ WC_Backup(p)
        \/ WC_BackupFail(p)
        \/ WC_Write(p)
        \/ WC_WriteFail(p)
        \/ RS_Activate(p)
        \/ RS_ActivateFail(p)
        \/ RS_Audit(p)
        \/ RS_AuditFail(p)

SpecConcurrent == InitConcurrent /\ [][NextConcurrent]_vars

(***************************************************************************)
(* validate_config as a function of its document                           *)
(***************************************************************************)
\* the items of pool whose index is in S, in the order of pool
Pick(pool, S) ==
    LET Keep(it) == \E i \in S : pool[i] = it
    IN  SelectSeq(pool, Keep)

\* what a Server root is built of
ServerItems == << <<AttrKey("version"), VStr(<<"8">>)>>,
                  <<ElemKey("Bind"), VStr(<<"a">>)>>,
                  <<ElemKey("Name"), VStr(<<"n">>)>>,
                  <<ElemKey("VirtualHosts"), VNone>> >>

\* the text of a root that has text only
ServerTexts == {<<"@", "version", " ", "Bind">>, <<"@", "version">>, <<"Bind">>, <<"x">>}

\* the value under the root key: no content, text, a dict, a list
ServerValues ==
    {VNone}
    \cup {VStr(s) : s \in ServerTexts}
    \cup {VDict(Pick(ServerItems, S)) : S \in SUBSET (DOMAIN ServerItems)}
    \cup {VList(<<VStr(<<"@", "version">>)>>),
          VList(<<VStr(<<"@", "version">>), VStr(<<"Bind">>)>>)}

\* the documents validate_config is called with
Documents ==
    {VDict(<< <<ElemKey(root), v>> >>) : root \in {"Server", "Config"}, v \in ServerValues}
    \cup {VDict(<<>>), VNone, VStr(<<"x">>),
          VDict(<< <<ElemKey("Server"), VDict(Pick(ServerItems, {1, 2}))>>,
                   <<ElemKey("Config"), VNone>> >>)}

VC_Call(p, config) ==
    /\ Idle(p)
    /\ Goto(p, "vc_run", [Start("validate_config", 0) EXCEPT !.config = config])
    /\ UNCHANGED <<console, fileExists, live, backups, now, snapshots, audit, session, nreq, faults>>

\* lines 71-106: the call returns (ok, error) or ends in an exception
VC_Return(p) ==
    /\ pc[p] = "vc_run"
    /\ LET r == validate_config(loc[p].config)
       IN  Finish(p, IF r.raised THEN Propagated("Exception")
                     ELSE ReturnedPair(IF r.ok THEN "true" ELSE "false", r.error),
                  loc[p])
    /\ UNCHANGED <<console, fileExists, live, backups, now, snapshots, audit, session, nreq, faults>>

NextVal ==
    \E p \in SeqProcs :
        \/ \E config \in Documents : VC_Call(p, config)
        \/ VC_Return(p)

SpecVal == Init /\ [][NextVal]_vars

(***************************************************************************)
(* OMEClient (services/ome_client.py)                                      *)
(***************************************************************************)
\* What the control plane does with one request: the transport fails
\* (requests.exceptions.RequestException), or a response arrives.  The body
\* is a JSON object with a 'response' member, the JSON object {}, a JSON
\* array, or text that is no JSON.
TransportFailure == [kind |-> "transport", status |-> 0, body |-> ""]
Statuses == {200, 201, 204, 304, 404, 500}
Bodies == {"object", "empty object", "array", "text"}
Exchanges ==
    {TransportFailure}
    \cup {[kind |-> "response", status |-> st, body |-> b] : st \in Statuses, b \in Bodies}

OMEAPIException(code, body) ==
    [NoResp EXCEPT !.result = "raise", !.error = "OMEAPIException", !.code = code,
                   !.body = body]

\* raise_for_status raises HTTPError for a 4xx or 5xx status
raise_for_status(x) == 400 <= x.status /\ x.status < 600

\* _request with the second except clause left out
request_NoTransportCatch(x) ==
    IF x.kind = "transport" THEN [raised |-> TRUE, exc |-> Propagated("ConnectionError")]
    ELSE IF raise_for_status(x)
    THEN [raised |-> TRUE, exc |-> OMEAPIException(x.status, x.body)]
    ELSE [raised |-> FALSE, exc |-> NoResp]

\* _request, lines 44-72: the response, or the OMEAPIException raised
request(x) ==
    IF x.kind = "transport"
    THEN [raised |-> TRUE, exc |-> OMEAPIException(0, "Connection error")]
    ELSE IF raise_for_status(x)
    THEN [raised |-> TRUE, exc |-> OMEAPIException(x.status, x.body)]
    ELSE [raised |-> FALSE, exc |-> NoResp]

\* response.json().get('response', default)
JsonResponse(x) ==
    CASE x.body = "object" -> Returned("value")
      [] x.body = "empty object" -> Returned("default")
      [] x.body = "array" -> Propagated("AttributeError")
      [] OTHER -> Propagated("JSONDecodeError")

JsonMethods == {"list_vhosts", "get_vhost", "create_vhost", "update_vhost",
                "list_apps", "get_app", "create_app", "update_app",
                "list_streams", "get_stream", "create_stream"}
DeleteMethods == {"delete_vhost", "delete_app", "delete_stream"}
ResourceMethods == JsonMethods \cup DeleteMethods
StatsMethods == {"get_server_stats", "get_stream_stats"}
ClientMethods == ResourceMethods \cup StatsMethods \cup {"health_check"}

\* what a method does with the OMEAPIException of _request
OnException(method, exc) ==
    CASE method \in StatsMethods /\ exc.error = "OMEAPIException" -> Returned("empty")
      [] method = "health_check" /\ exc.error = "OMEAPIException" -> Returned("false")
      [] OTHER -> exc

\* what a method returns for a response
OnResponse(method, x) ==
    CASE method \in DeleteMethods -> Returned(IF x.status = 200 THEN "true" ELSE "false")
      [] method = "health_check" -> Returned("true")
      [] OTHER -> JsonResponse(x)

CL_Call(p, method) ==
    /\ Idle(p)
    /\ Goto(p, "cl_request", Start(method, 0))
    /\ UNCHANGED <<console, fileExists, live, backups, now, snapshots, audit, session, nreq, faults>>

\* the request is answered with x and _request raises
CL_RequestRaises(p, x) ==
    /\ pc[p] = "cl_request"
    /\ request(x).raised
    /\ Finish(p, OnException(loc[p].op, request(x).exc), [loc[p] EXCEPT !.exchange = x])
    /\ UNCHANGED <<console, fileExists, live, backups, now, snapshots, audit, session, nreq, faults>>

\* the request is answered with x and _request returns the response
CL_RequestReturns(p, x) ==
    /\ pc[p] = "cl_request"
    /\ ~request(x).raised
    /\ Goto(p, "cl_response", [loc[p] EXCEPT !.exchange = x])
    /\ UNCHANGED <<console, fileExists, live, backups, now, snapshots, audit, session, nreq, faults>>

\* the method works on the response
CL_Response(p) ==
    /\ pc[p] = "cl_response"
    /\ Finish(p, OnResponse(loc[p].op, loc[p].exchange), loc[p])
    /\ UNCHANGED <<console, fileExists, live, backups, now, snapshots, audit, session, nreq, faults>>

\* a client method as a function of the answer to its request
Call(method, x) ==
    IF request(x).raised THEN OnException(method, request(x).exc)
    ELSE OnResponse(method, x)

(***************************************************************************)
(* GET /status: get_status (api/server.py) with test_ome_connection        *)
(***************************************************************************)
\* lines 135-151: the JSON result; error is "" for None
StatusResult(is_connected, error, stats) ==
    [NoResp EXCEPT !.status = 200,
                   !.api_url = app.config.OME_API_URL,
                   !.result = IF is_connected THEN "true" ELSE "false",
                   !.error = error,
                   !.fields = {"api_connected", "api_url"}
                              \cup (IF error # "" THEN {"error"} ELSE {})
                              \cup (IF stats THEN {"stats"} ELSE {})]

\* get_status up to health_check; configured: the manager has an ome_client
ST_Begin(p, configured) ==
    /\ Idle(p)
    /\ IF configured THEN Goto(p, "st_health", Start("get_status", 0))
       ELSE Finish(p, StatusResult(FALSE, "OME client not configured", FALSE),
                   [Start("get_status", 0) EXCEPT !.failed = "client"])
    /\ UNCHANGED <<console, fileExists, live, backups, now, snapshots, audit, session, nreq, faults>>

\* test_ome_connection, lines 211-217: health_check is answered with x
ST_Health(p, x) ==
    /\ pc[p] = "st_health"
    /\ LET h == Call("health_check", x)
           l == [loc[p] EXCEPT !.exchange = x, !.target = app.ome_client.api_url]
       IN  IF h.result = "true" THEN Goto(p, "st_stats", l)
           ELSE IF h.result = "false"
           THEN Finish(p, StatusResult(FALSE, "OME API is not responding", FALSE),
                       [l EXCEPT !.failed = "health"])
           ELSE Finish(p, StatusResult(FALSE, h.error, FALSE), [l EXCEPT !.failed = "health"])
    /\ UNCHANGED <<console, fileExists, live, backups, now, snapshots, audit, session, nreq, faults>>

\* lines 145-151: get_server_stats is answered with x; an exception of it
\* is passed over
ST_Stats(p, x) ==
    /\ pc[p] = "st_stats"
    /\ LET st == Call("get_server_stats", x)
           l == [loc[p] EXCEPT !.exchange = x]
       IN  IF st.result = "raise"
           THEN Finish(p, StatusResult(TRUE, "", FALSE), [l EXCEPT !.failed = "stats"])
           ELSE Finish(p, StatusResult(TRUE, "", TRUE), l)
    /\ UNCHANGED <<console, fileExists, live, backups, now, snapshots, audit, session, nreq, faults>>

NextClient ==
    \E p \in SeqProcs :
        \/ \E method \in ClientMethods : CL_Call(p, method)
        \/ \E x \in Exchanges : CL_RequestRaises(p, x)
        \/ \E x \in Exchanges : CL_RequestReturns(p, x)
        \/ CL_Response(p)
        \/ \E configured \in BOOLEAN : ST_Begin(p, configured)
        \/ \E x \in Exchanges : ST_Health(p, x)
        \/ \E x \in Exchanges : ST_Stats(p, x)

SpecClient == Init /\ [][NextClient]_vars

(***************************************************************************)
(* The codec as a function of a text: parse_string, dict_to_xml            *)
(***************************************************************************)
CodecTags == {"a", "b"}
CodecTexts == {<<>>, <<Text(<<"t">>)>>, <<Text(<<" ", "t", " ", "u", NL>>)>>}

Element(tag, attrs, before, kids, after) ==
    <<Open(tag, attrs)>> \o before \o kids \o after \o <<Close(tag)>>

\* elements without children: empty, with text, with an attribute and text
Leaves ==
    {Element(t, <<>>, tx, <<>>, <<>>) : t \in CodecTags, tx \in {<<>>, <<Text(<<"t">>)>>}}
    \cup {Element("b", << <<"x", <<"1">>>> >>, tx, <<>>, <<>>) : tx \in CodecTexts \ {<<>>}}

\* up to n elements of S in a row
RECURSIVE KidSeqs(_, _)
KidSeqs(S, n) ==
    IF n = 0 THEN {<<>>}
    ELSE KidSeqs(S, n - 1) \cup {k \o e : k \in KidSeqs(S, n - 1), e \in S}

\* elements with up to MaxKids children, with text or layout before them
\* and text after them
Parents ==
    {Element(t, at, b, k, a) :
        t \in {"a"}, at \in {<<>>, << <<"x", <<"1">>>>, <<"y", <<"2">>>> >>},
        b \in {<<>>, <<Text(<<NL, Indent>>)>>, <<Text(<<"t">>)>>},
        k \in KidSeqs(Leaves, MaxKids), a \in {<<>>, <<Text(<<"u">>)>>}}

\* the texts given to parse_string: one root, nested up to three deep, with
\* or without the XML declaration; and a text that is not well-formed
CodecInputs ==
    Parents
    \cup {Element("r", <<>>, <<>>, e, <<>>) : e \in Parents}
    \cup {<<Decl, Text(<<NL>>)>> \o e : e \in Leaves}
    \cup {XmlUnclosed}

\* parse_string(xml_string); each run of the codec specification takes one text
CD_Parse(p, xml_string) ==
    /\ pc[p] = "idle"
    /\ LET l == [Start("round_trip", 0) EXCEPT !.new_xml = xml_string]
           parsed == parse_string(xml_string)
       IN  IF ~parsed.ok
           THEN Finish(p, Propagated("ValueError"), [l EXCEPT !.failed = "parse"])
           ELSE Goto(p, "cd_unparse", [l EXCEPT !.config = parsed.doc])
    /\ UNCHANGED <<console, fileExists, live, backups, now, snapshots, audit, session, nreq, faults>>

\* dict_to_xml(d, pretty)
CD_Unparse(p, pretty) ==
    /\ pc[p] = "cd_unparse"
    /\ LET xml == dict_to_xml(loc[p].config, pretty)
       IN  IF ~xml.ok
           THEN Finish(p, Propagated("ValueError"), [loc[p] EXCEPT !.failed = "unparse"])
           ELSE Goto(p, "cd_reparse", [loc[p] EXCEPT !.text = xml.xml])
    /\ UNCHANGED <<console, fileExists, live, backups, now, snapshots, audit, session, nreq, faults>>

\* parse_string of the serialized text
CD_Reparse(p) ==
    /\ pc[p] = "cd_reparse"
    /\ LET parsed == parse_string(loc[p].text)
       IN  IF ~parsed.ok
           THEN Finish(p, Propagated("ValueError"), [loc[p] EXCEPT !.failed = "reparse"])
           ELSE Finish(p, Returned("value"), [loc[p] EXCEPT !.out = parsed.doc])
    /\ UNCHANGED <<console, fileExists, live, backups, now, snapshots, audit, session, nreq, faults>>

NextCodec ==
    \E p \in SeqProcs :
        \/ \E x \in CodecInputs : CD_Parse(p, x)
        \/ \E pretty \in BOOLEAN : CD_Unparse(p, pretty)
        \/ CD_Reparse(p)

SpecCodec == Init /\ [][NextCodec]_vars

(***************************************************************************)
(* get_server_info and get_virtual_hosts on the same file                  *)
(***************************************************************************)
\* Python's len(v); ok = FALSE for the TypeError of len(None)
PyLen(v) ==
    CASE v.t = "dict" -> [ok |-> TRUE, n |-> Len(v.items)]
      [] v.t = "list" -> [ok |-> TRUE, n |-> Len(v.elems)]
      [] v.t = "str" -> [ok |-> TRUE, n |-> Len(v.s)]
      [] OTHER -> [ok |-> FALSE, n |-> 0]

\* XMLParser.extract_server_info, lines 159-168: virtual_hosts_count, or
\* ok = FALSE for an AttributeError or TypeError
extract_server_info(config) ==
    LET server == PyGet(config, ElemKey("Server"), VDict(<<>>))
        hosts == IF server.ok THEN PyGet(server.val, ElemKey("VirtualHosts"), VDict(<<>>))
                 ELSE server
        vhosts == IF hosts.ok THEN PyGet(hosts.val, ElemKey("VirtualHost"), VList(<<>>))
                  ELSE hosts
    IN  IF vhosts.ok THEN PyLen(vhosts.val) ELSE [ok |-> FALSE, n |-> 0]

\* a virtual host with a name and a host section
FullHost(name) == << Open("VirtualHost", <<>>), Open("Name", <<>>), Text(<<name>>),
                     Close("Name"), Open("Host", <<>>), Text(<<"h">>), Close("Host"),
                     Close("VirtualHost") >>

\* Server.xml with these virtual hosts
ServerWith(hosts) ==
    <<Open("Server", Version8), Open("Bind", <<>>), Text(<<"a">>), Close("Bind"),
      Open("VirtualHosts", <<>>)>> \o hosts \o <<Close("VirtualHosts"), Close("Server")>>

\* files with up to MaxKids virtual hosts, and files without the section
InfoFiles ==
    {ServerWith(hosts) :
        hosts \in KidSeqs({Host("a"), Host("b"), FullHost("a"), FullHost("c")}, MaxKids)}
    \cup {XmlA, XmlNoBind, XmlUnclosed}

\* get_server_info(): config_manager.py lines 108-111
MG_GetServerInfo(p) ==
    /\ Idle(p)
    /\ nreq < MaxCalls
    /\ nreq' = nreq + 1
    /\ LET l == Start("get_server_info", 0)
           parsed == parse_string(live)
           info == extract_server_info(parsed.doc)
       IN  IF ~fileExists THEN Finish(p, Returned("raise"), [l EXCEPT !.failed = "read"])
           ELSE IF ~parsed.ok THEN Finish(p, Returned("raise"), [l EXCEPT !.failed = "parse"])
           ELSE IF ~info.ok THEN Finish(p, Returned("raise"), [l EXCEPT !.failed = "lookup"])
           ELSE Finish(p, [Returned("value") EXCEPT !.count = info.n], l)
    /\ UNCHANGED <<console, fileExists, live, backups, now, snapshots, audit, session, faults>>

InitInfo ==
    /\ \/ fileExists = TRUE /\ live \in InfoFiles
       \/ fileExists = FALSE /\ live = <<>>
    /\ backups = NoBackups
    /\ now = 0
    /\ snapshots = <<>>
    /\ audit = <<>>
    /\ session = [p \in Procs |-> <<>>]
    /\ pc = [p \in Procs |-> "idle"]
    /\ loc = [p \in Procs |-> NoLoc]
    /\ resp = [p \in Procs |-> NoResp]
    /\ nreq = 0
    /\ faults = 0
    /\ Installed

NextInfo ==
    \E p \in SeqProcs :
        \/ MG_GetServerInfo(p)
        \/ MG_GetVirtualHosts(p)

SpecInfo == InitInfo /\ [][NextInfo]_vars

(***************************************************************************)
(* The other routes of the console: settings, audit log, users, remote     *)
(* resources (api/settings.py, api/logs.py, api/auth.py,                    *)
(* api/virtualhosts.py, api/applications.py, api/streams.py).  Each        *)
(* handler is one step; its database calls succeed.                        *)
(***************************************************************************)
\* what configuration management owns
configuration == <<fileExists, live, backups, now, snapshots, session, faults>>

\* one more request is taken
Begin(p) ==
    /\ Idle(p)
    /\ nreq < MaxConsole
    /\ nreq' = nreq + 1

\* Settings.to_dict, lines 107-118: the value shown
to_dict(rows, key, include_secret) ==
    IF is_secret(key) /\ ~include_secret THEN HIDDEN ELSE rows[key]

\* GET /settings/, lines 13-39
SE_GetAll(p, user) ==
    /\ Begin(p)
    /\ LET l == Start("get_all_settings", user)
           role == UserRole[user]
       IN  IF ~is_operator(role)
           THEN Finish(p, Http(403), [l EXCEPT !.failed = "permission"])
           ELSE Finish(p, [Http(200) EXCEPT !.seen =
                              {to_dict(settings, k, is_admin(role)) : k \in SettingKeys}], l)
    /\ UNCHANGED <<configuration, audit, console>>

\* GET /settings/<key>, lines 42-56
SE_Get(p, user, key) ==
    /\ Begin(p)
    /\ LET l == Start("get_setting", user)
           role == UserRole[user]
       IN  IF ~is_operator(role)
           THEN Finish(p, Http(403), [l EXCEPT !.failed = "permission"])
           ELSE IF key \notin DOMAIN settings
           THEN Finish(p, Http(404), [l EXCEPT !.failed = "missing"])
           ELSE Finish(p, [Http(200) EXCEPT !.seen = {to_dict(settings, key, is_admin(role))}],
                       l)
    /\ UNCHANGED <<configuration, audit, console>>

\* update_settings, lines 92-113, for one item: the row is updated and
\* committed and the change is logged with the old and the new value
UpdateItem(st, item, user) ==
    IF item.key \in DOMAIN st.settings
    THEN [settings |-> [st.settings EXCEPT ![item.key] = item.value],
          audit |-> Append(st.audit,
                           LogRow(user, "update", "setting", item.key,
                                  <<st.settings[item.key], item.value>>)),
          updated |-> st.updated + 1]
    ELSE st

\* the loop of lines 87-116
RECURSIVE UpdateItems(_, _, _)
UpdateItems(st, items, user) ==
    IF items = <<>> THEN st
    ELSE UpdateItems(UpdateItem(st, Head(items), user), Tail(items), user)

\* PUT /settings/, lines 59-128: the items are applied, then the config is
\* loaded again; current_app.ome_client is left as it is
SE_Update(p, user, hasSettings, items) ==
    /\ Begin(p)
    /\ LET l == Start("update_settings", user)
           st == UpdateItems([settings |-> settings, audit |-> audit, updated |-> 0],
                             items, user)
       IN  IF ~is_admin(UserRole[user])
           THEN /\ Finish(p, Http(403), [l EXCEPT !.failed = "permission"])
                /\ UNCHANGED <<settings, audit, app>>
           ELSE IF ~hasSettings
           THEN /\ Finish(p, Http(400), [l EXCEPT !.failed = "body"])
                /\ UNCHANGED <<settings, audit, app>>
           ELSE /\ settings' = st.settings
                /\ audit' = st.audit
                /\ app' = init_app(app, st.settings)
                /\ Finish(p, [Http(200) EXCEPT !.count = st.updated], l)
    /\ UNCHANGED <<configuration, remote, users>>

\* POST /settings/reload, lines 131-166: the config is loaded again and a
\* new client is built from it
SE_Reload(p, user) ==
    /\ Begin(p)
    /\ LET l == Start("reload_settings", user)
           a == init_app(app, settings)
       IN  IF ~is_admin(UserRole[user])
           THEN /\ Finish(p, Http(403), [l EXCEPT !.failed = "permission"])
                /\ UNCHANGED <<audit, app>>
           ELSE /\ app' = [a EXCEPT !.ome_client = OMEClient(a.config.OME_API_URL,
                                                            a.config.OME_API_ACCESS_TOKEN)]
                /\ audit' = Append(audit, LogRow(user, "update", "settings", "", <<>>))
                /\ Finish(p, Http(200), l)
    /\ UNCHANGED <<configuration, settings, remote, users>>

\* AuditLog.to_dict, line 64: the texts of a description
Texts(description) == {description[j] : j \in DOMAIN description}

\* GET /logs/audit, lines 13-64, without filters: the rows' descriptions
LG_Audit(p, user) ==
    /\ Begin(p)
    /\ LET l == Start("get_audit_logs", user)
       IN  IF ~is_operator(UserRole[user])
           THEN Finish(p, Http(403), [l EXCEPT !.failed = "permission"])
           ELSE Finish(p, [Http(200) EXCEPT !.seen =
                              UNION {Texts(audit[i].description) : i \in DOMAIN audit}],
                       l)
    /\ UNCHANGED <<configuration, audit, console>>

ROLES == {ROLE_ADMIN, ROLE_OPERATOR, ROLE_VIEWER}

\* POST /auth/users, lines 143-203; a user's email goes with the username
AU_CreateUser(p, user, complete, username, role) ==
    /\ Begin(p)
    /\ LET l == Start("create_user", user)
       IN  IF ~is_admin(UserRole[user])
           THEN /\ Finish(p, Http(403), [l EXCEPT !.failed = "permission"])
                /\ UNCHANGED <<users, audit>>
           ELSE IF ~complete
           THEN /\ Finish(p, Http(400), [l EXCEPT !.failed = "body"])
                /\ UNCHANGED <<users, audit>>
           ELSE IF \E i \in DOMAIN users : users[i].username = username
           THEN /\ Finish(p, Http(409), [l EXCEPT !.failed = "exists"])
                /\ UNCHANGED <<users, audit>>
           ELSE IF role \notin ROLES
           THEN /\ Finish(p, Http(400), [l EXCEPT !.failed = "role"])
                /\ UNCHANGED <<users, audit>>
           ELSE /\ users' = Append(users, [username |-> username, role |-> role])
                /\ audit' = Append(audit, LogRow(user, "create", "user", username,
                                                 <<>>))
                /\ Finish(p, Http(201), l)
    /\ UNCHANGED <<configuration, settings, app, remote>>

\* the media server carries out a request exactly when it answers 2xx
Carried(x) == x.kind = "response" /\ 200 <= x.status /\ x.status < 300

\* the media server's record after the client's request was answered with x
Asked(method, x) ==
    IF Carried(x)
    THEN Append(remote, [method |-> method, base |-> app.ome_client.api_url])
    ELSE remote

\* the locals of a route after its call of the client
AfterCall(l, x) == [l EXCEPT !.exchange = x, !.target = app.ome_client.api_url]

\* except OMEAPIException: 400; any other exception leaves the handler: 500
RouteError(exc) == IF exc.error = "OMEAPIException" THEN Http(400) ELSE Http(500)

\* the create and update routes of virtual hosts and applications:
\* permission 'write', a JSON body, the client call, the audit row
JsonRoute(p, method, user, hasBody, x, action, resource_type, status) ==
    /\ Begin(p)
    /\ LET l == Start(method, user)
           r == Call(method, x)
       IN  IF ~has_permission(UserRole[user], "write")
           THEN /\ Finish(p, Http(403), [l EXCEPT !.failed = "permission"])
                /\ UNCHANGED <<remote, audit>>
           ELSE IF ~hasBody
           THEN /\ Finish(p, Http(400), [l EXCEPT !.failed = "body"])
                /\ UNCHANGED <<remote, audit>>
           ELSE /\ remote' = Asked(method, x)
                /\ IF r.result = "raise"
                   THEN /\ Finish(p, RouteError(r), [AfterCall(l, x) EXCEPT !.failed = "client"])
                        /\ UNCHANGED audit
                   ELSE /\ audit' = Append(audit, LogRow(user, action, resource_type,
                                                         "name", <<>>))
                        /\ Finish(p, Http(status), AfterCall(l, x))
    /\ UNCHANGED <<configuration, settings, app, users>>

\* the delete routes: the client call, and when it returns True the audit
\* row (if the route writes one)
DeleteRoute(p, method, user, permission, x, resource_type, audited) ==
    /\ Begin(p)
    /\ LET l == Start(method, user)
           r == Call(method, x)
       IN  IF ~has_permission(UserRole[user], permission)
           THEN /\ Finish(p, Http(403), [l EXCEPT !.failed = "permission"])
                /\ UNCHANGED <<remote, audit>>
           ELSE /\ remote' = Asked(method, x)
                /\ IF r.result = "raise"
                   THEN /\ Finish(p, RouteError(r), [AfterCall(l, x) EXCEPT !.failed = "client"])
                        /\ UNCHANGED audit
                   ELSE IF r.result = "true"
                   THEN /\ audit' = IF audited
                                    THEN Append(audit, LogRow(user, "delete", resource_type,
                                                              "name", <<>>))
                                    ELSE audit
                        /\ Finish(p, Http(200), AfterCall(l, x))
                   ELSE /\ Finish(p, Http(500), [AfterCall(l, x) EXCEPT !.failed = "client"])
                        /\ UNCHANGED audit
    /\ UNCHANGED <<configuration, settings, app, users>>

\* api/virtualhosts.py: create_vhost 36-75, update_vhost 78-109,
\* delete_vhost 112-142
VH_Create(p, user, hasBody, x) ==
    JsonRoute(p, "create_vhost", user, hasBody, x, "create", "virtualhost", 201)
VH_Update(p, user, hasBody, x) ==
    JsonRoute(p, "update_vhost", user, hasBody, x, "update", "virtualhost", 200)
VH_Delete(p, user, x) ==
    DeleteRoute(p, "delete_vhost", user, "delete", x, "virtualhost", TRUE)

\* api/applications.py: create_app 36-67, update_app 70-101, delete_app
\* 104-134
AP_Create(p, user, hasBody, x) ==
    JsonRoute(p, "create_app", user, hasBody, x, "create", "application", 201)
AP_Update(p, user, hasBody, x) ==
    JsonRoute(p, "update_app", user, hasBody, x, "update", "application", 200)
AP_Delete(p, user, x) ==
    DeleteRoute(p, "delete_app", user, "delete", x, "application", TRUE)

\* api/streams.py: delete_stream 47-66 asks for 'write' and writes no audit
\* row
SM_Delete(p, user, x) ==
    DeleteRoute(p, "delete_stream", user, "write", x, "stream", FALSE)

\* answers of the media server taken in the console specification
OK200 == [kind |-> "response", status |-> 200, body |-> "object"]
SampleExchanges ==
    {TransportFailure, OK200}
    \cup {[kind |-> "response", status |-> st, body |-> "text"] : st \in {200, 204, 404}}

\* the users with a role that grants 'write', and the admins
Writers == {u \in Accounts : UserRole[u] \in {ROLE_ADMIN, ROLE_OPERATOR}}
Admins == {u \in Accounts : UserRole[u] = ROLE_ADMIN}

\* requests to a route that calls the client: every user sends a request
\* with a body that the media server answers 200; a writer also sends one
\* without body and one for each of the other answers
RouteRequests ==
    {[user |-> u, hasBody |-> TRUE, x |-> OK200] : u \in Accounts}
    \cup {[user |-> u, hasBody |-> FALSE, x |-> OK200] : u \in Writers}
    \cup {[user |-> u, hasBody |-> TRUE, x |-> x] : u \in Writers, x \in SampleExchanges}

Secret == <<"s">>

\* bodies of PUT /settings/
SettingItems ==
    {[key |-> "ome_api_url", value |-> UrlB],
     [key |-> "ome_api_url", value |-> UrlBSlash],
     [key |-> "ome_api_access_token", value |-> Secret],
     [key |-> "missing", value |-> UrlB]}
SettingBodies ==
    {<<>>} \cup {<<i>> : i \in SettingItems}
    \cup {<<[key |-> "ome_api_url", value |-> UrlB],
            [key |-> "ome_api_access_token", value |-> Secret]>>}

\* requests to PUT /settings/: every user sends the two-item body; an admin
\* also sends a request without 'settings' and each of the other bodies
SettingRequests ==
    {[user |-> u, hasSettings |-> TRUE,
      items |-> <<[key |-> "ome_api_url", value |-> UrlB],
                  [key |-> "ome_api_access_token", value |-> Secret]>>] : u \in Accounts}
    \cup {[user |-> u, hasSettings |-> FALSE, items |-> <<>>] : u \in Admins}
    \cup {[user |-> u, hasSettings |-> TRUE, items |-> b] : u \in Admins, b \in SettingBodies}

\* requests to POST /auth/users: every user asks for a new operator; an admin
\* also sends an incomplete request, a taken username and an unknown role
UserRequests ==
    {[user |-> u, complete |-> TRUE, username |-> "new", role |-> ROLE_OPERATOR] :
         u \in Accounts}
    \cup {[user |-> u, complete |-> c, username |-> n, role |-> r] :
              u \in Admins, c \in BOOLEAN, n \in {"admin", "new"},
              r \in {ROLE_OPERATOR, "root"}}

\* requests to PUT /config: every user sends XmlB; a writer also sends a
\* request without 'config' and each of the other bodies
ConfigRequests ==
    {[user |-> u, hasConfig |-> TRUE, xml |-> XmlB] : u \in Accounts}
    \cup {[user |-> u, hasConfig |-> FALSE, xml |-> XmlB] : u \in Writers}
    \cup {[user |-> u, hasConfig |-> TRUE, xml |-> x] : u \in Writers, x \in RequestBodies}

\* requests to POST /snapshots/<id>/restore: every user asks for snapshot 1,
\* a writer also for the others
RestoreRequests ==
    {[user |-> u, id |-> 1] : u \in Accounts}
    \cup {[user |-> u, id |-> id] : u \in Writers, id \in 1..MaxRequests}

\* a console that has handled two updates
InitConsole ==
    /\ live = XmlB
    /\ snapshots = TwoSnapshots
    /\ audit = <<AuditRow(1, "update", 0), AuditRow(1, "update", 0)>>
    /\ fileExists = TRUE
    /\ backups = NoBackups
    /\ now = 0
    /\ session = [p \in Procs |-> <<>>]
    /\ pc = [p \in Procs |-> "idle"]
    /\ loc = [p \in Procs |-> NoLoc]
    /\ resp = [p \in Procs |-> NoResp]
    /\ nreq = 0
    /\ faults = 0
    /\ Installed

\* requests of all users to all routes, one after the other, with no I/O or
\* database failure
NextConsole ==
    \E p \in SeqProcs :
        \/ \E u \in Accounts : SE_GetAll(p, u)
        \/ \E u \in Accounts, k \in SettingKeys \cup {"missing"} : SE_Get(p, u, k)
        \/ \E r \in SettingRequests : SE_Update(p, r.user, r.hasSettings, r.items)
        \/ \E u \in Accounts : SE_Reload(p, u)
        \/ \E u \in Accounts : LG_Audit(p, u)
        \/ \E r \in UserRequests : AU_CreateUser(p, r.user, r.complete, r.username, r.role)
        \/ \E r \in RouteRequests : VH_Create(p, r.user, r.hasBody, r.x)
        \/ \E r \in RouteRequests : VH_Update(p, r.user, r.hasBody, r.x)
        \/ \E r \in RouteRequests : r.hasBody /\ VH_Delete(p, r.user, r.x)
        \/ \E r \in RouteRequests : AP_Create(p, r.user, r.hasBody, r.x)
        \/ \E r \in RouteRequests : AP_Update(p, r.user, r.hasBody, r.x)
        \/ \E r \in RouteRequests : r.hasBody /\ AP_Delete(p, r.user, r.x)
        \/ \E r \in RouteRequests : r.hasBody /\ SM_Delete(p, r.user, r.x)
        \/ nreq < MaxConsole /\ ST_Begin(p, TRUE)
        \/ \E x \in SampleExchanges : ST_Health(p, x)
        \/ \E x \in SampleExchanges : ST_Stats(p, x)
        \/ /\ nreq < MaxConsole
           /\ \E r \in ConfigRequests : UC_Begin(p, r.user, r.hasConfig, r.xml)
        \/ UC_Read(p)
        \/ UC_Version(p)
        \/ UC_Write(p)
        \/ UC_Commit(p)
        \/ UC_Audit(p)
        \/ /\ nreq < MaxConsole
           /\ \E r \in RestoreRequests : RS_Begin(p, r.user, r.id)
        \/ WC_Backup(p)
        \/ WC_Write(p)
        \/ RS_Activate(p)
        \/ RS_Audit(p)

SpecConsole == InitConsole /\ [][NextConsole]_vars

(***************************************************************************)
(* Properties                                                              *)
(***************************************************************************)
\* a committed snapshot row with this version holds this text
SnapshotStored(version, data) ==
    \E i \in 1..Len(snapshots) :
        snapshots[i].version = version /\ snapshots[i].configuration_data = data

\* rows of the audit log with this action
Logged(action) == {i \in 1..Len(audit) : audit[i].action = action}

\* the handler of p has answered
Done(p) == pc[p] = "done"

\* C1: in every state reachable by update_config and restore_snapshot
\* requests handled one after another, at most one snapshot is active.
C1_AtMostOneActive == Cardinality(get_active(snapshots)) <= 1

\* snapshot 1 was restored, then snapshot 2, and one snapshot is active
C1_Witness ==
    /\ Len(audit) >= 2
    /\ audit[Len(audit) - 1] = AuditRow(1, "rollback", 1)
    /\ audit[Len(audit)] = AuditRow(1, "rollback", 2)
    /\ Cardinality(get_active(snapshots)) = 1

\* C2: once restore_snapshot has activated snapshot k (and when it has
\* answered 200), snapshot k is the one and only active snapshot.
C2_RestoredIsTheActive ==
    \A p \in Procs :
        (/\ loc[p].op = "restore_snapshot"
         /\ \/ pc[p] = "rs_audit"
            \/ Done(p) /\ resp[p].status = 200)
        => get_active(snapshots) = {loc[p].snapshot_id}

\* a restore answered 200 while another snapshot was the active one before
C2_Witness ==
    \E p \in Procs :
        /\ Done(p) /\ resp[p].status = 200
        /\ loc[p].op = "restore_snapshot"
        /\ Len(audit) >= 2
        /\ audit[Len(audit) - 1].action = "rollback"
        /\ audit[Len(audit) - 1].resource_id # loc[p].snapshot_id
        /\ audit[Len(audit)].resource_id = loc[p].snapshot_id
        /\ get_active(snapshots) = {loc[p].snapshot_id}

\* C3: in update_config the snapshot of the old content is committed before
\* the live file is overwritten: when the file has been overwritten, the
\* snapshot row is in the store.
C3_CommitBeforeWrite ==
    \A p \in Procs :
        (loc[p].op = "update_config" /\ pc[p] = "uc_commit")
        => SnapshotStored(loc[p].version, loc[p].old_xml)

\* C4: when the live-file write of an update fails after the snapshot was
\* created, the snapshot is in the store once the request has finished.
C4_SnapshotSurvivesFailedWrite ==
    \A p \in Procs :
        (loc[p].op = "update_config" /\ Done(p) /\ loc[p].failed = "write")
        => SnapshotStored(loc[p].version, loc[p].old_xml)

\* C5: every overwrite of the live file, by whichever operation, comes with
\* exactly one snapshot record created for it that holds the content the
\* file had just before.
C5_SnapshotPerOverwrite ==
    [][(live' # live /\ fileExists)
       => \E p \in Procs :
             /\ Len(session[p]) = 1
             /\ session[p][1].configuration_data = live]_vars

\* C6: the versions of the snapshots are 1..N in creation order, each once,
\* and when every request so far has run without a failure, N is the number
\* of update_config requests answered 200.
C6_VersionsOneToN ==
    /\ \A i \in 1..Len(snapshots) : snapshots[i].version = i
    /\ (faults = 0 /\ \A p \in Procs : Idle(p))
       => Len(snapshots) = Cardinality(Logged("update"))

\* three updates answered 200 and three snapshots
C6_Witness ==
    /\ faults = 0
    /\ \A p \in Procs : Idle(p)
    /\ Cardinality(Logged("update")) = 3
    /\ Len(snapshots) = 3

\* the text a restore works on
RestoreSource(p) ==
    IF loc[p].op = "restore_snapshot"
    THEN snapshots[loc[p].snapshot_id].configuration_data
    ELSE loc[p].new_xml

\* the text parses and the document passes validate_config
PassesValidation(xml_string) ==
    /\ parse_string(xml_string).ok
    /\ validate_config(parse_string(xml_string).doc).ok

\* the text parses to a Server element without a Bind section
MissingBind(xml_string) ==
    LET parsed == parse_string(xml_string)
    IN  /\ parsed.ok
        /\ HasKey(parsed.doc, ElemKey("Server"))
        /\ IsDict(Get(parsed.doc, ElemKey("Server")))
        /\ ~HasKey(Get(parsed.doc, ElemKey("Server")), ElemKey("Bind"))

\* the restore of p got as far as write_config
RestoreStarted(p) ==
    /\ loc[p].op = "restore_snapshot"
    /\ loc[p].failed \notin {"permission", "missing"}

\* C7: a restore of a snapshot whose document fails validation ends with an
\* error, never enters write_config (no backup file, no write), and leaves
\* the live file as it was.
C7_InvalidRestoreWritesNothing ==
    \A p \in Procs :
        (RestoreStarted(p) /\ ~PassesValidation(RestoreSource(p)))
        => /\ Done(p)
           /\ resp[p].status = 500
           /\ loc[p].backup_path = -1
           /\ backups = loc[p].backups0
           /\ live = loc[p].live0
           /\ fileExists = loc[p].exists0

\* a restore of a snapshot without a Bind section has failed
C7_Witness ==
    \E p \in Procs :
        /\ RestoreStarted(p)
        /\ Done(p)
        /\ loc[p].failed = "invalid"
        /\ MissingBind(RestoreSource(p))
        /\ live # RestoreSource(p)

\* C8: a document that has become the content of the live file through
\* update_config, update_virtual_host or a restore has passed the full
\* validate check.
C8_ValidateBeforeWrite ==
    \A p \in Procs :
        /\ (loc[p].op = "update_config" /\ pc[p] = "uc_commit")
           => PassesValidation(loc[p].new_xml)
        /\ (loc[p].op = "restore_snapshot" /\ pc[p] = "rs_activate")
           => validate_config(loc[p].config).ok
        /\ (/\ loc[p].op \in {"update_virtual_host", "restore_from_snapshot"}
            /\ Done(p) /\ resp[p].result = "true")
           => validate_config(loc[p].config).ok

\* C9: when update_config answers with an error, the live file is as it was
\* before the request.
C9_FailedUpdateLeavesFile ==
    \A p \in Procs :
        (loc[p].op = "update_config" /\ Done(p) /\ resp[p].status # 200)
        => (live = loc[p].live0 /\ fileExists = loc[p].exists0)

\* the call of p wants a backup and found a live file
BackupDue(p) == loc[p].backup /\ loc[p].exists0

\* C10: write_config copies the live file to the backup path before it
\* overwrites it; after a successful call the backup holds the old content
\* and the live file the serialization of the document; with backup off or
\* no live file, no backup file is created.
C10_BackupBeforeOverwrite ==
    \A p \in Procs :
        /\ (pc[p] = "wc_write" /\ BackupDue(p))
           => /\ loc[p].backup_path \in DOMAIN backups
              /\ backups[loc[p].backup_path] = loc[p].live0
              /\ live = loc[p].live0
        /\ (Done(p) /\ resp[p].result = "true")
           => /\ fileExists
              /\ live = dict_to_xml(loc[p].config, TRUE).xml
              /\ BackupDue(p)
                 => /\ loc[p].backup_path \in DOMAIN backups
                    /\ backups[loc[p].backup_path] = loc[p].live0
        /\ (loc[p].op # "none" /\ ~BackupDue(p))
           => backups = loc[p].backups0

\* write_config(doc, backup=True) has replaced content A by the
\* serialization of doc, and the backup holds A
C10_Witness ==
    \E p \in Procs :
        /\ loc[p].op = "write_config"
        /\ Done(p) /\ resp[p].result = "true"
        /\ BackupDue(p)
        /\ live # loc[p].live0
        /\ backups[loc[p].backup_path] = loc[p].live0

\* a finished call of validate_config
Validated(p) == loc[p].op = "validate_config" /\ Done(p)

\* C11: validate_config never raises: for every document it returns a pair
\* (ok, error), a false result carries a non-empty message, and the call
\* leaves the document, the live file and the snapshot store as they were.
C11_ValidateNeverRaises ==
    \A p \in Procs :
        Validated(p) =>
            /\ resp[p].result \in {"true", "false"}
            /\ resp[p].result = "false" => resp[p].error \notin {"", "None"}
            /\ resp[p].result = "true" => resp[p].error = "None"
            /\ live = loc[p].live0 /\ fileExists = loc[p].exists0
            /\ backups = loc[p].backups0 /\ snapshots = <<>>

\* a Server root without content, where the membership test raises, has
\* been answered with false
C11_Witness ==
    \E p \in Procs :
        /\ Validated(p) /\ resp[p].result = "false"
        /\ loc[p].config = VDict(<< <<ElemKey("Server"), VNone>> >>)
        /\ ValidateTry(loc[p].config).raised


\* the rules of a configuration: the serialized form is well-formed, the root
\* element is Server, it carries a version attribute and holds a Bind section
MeetsRules(doc) ==
    /\ dict_to_xml(doc, TRUE).ok
    /\ validate_xml(dict_to_xml(doc, TRUE).xml)
    /\ IsDict(doc) /\ HasKey(doc, ElemKey("Server"))
    /\ LET server == Get(doc, ElemKey("Server"))
       IN  /\ IsDict(server)
           /\ HasKey(server, AttrKey("version"))
           /\ HasKey(server, ElemKey("Bind"))

\* C12: validate_config returns (true, no error) exactly when the serialized
\* document is well-formed, has a Server root, the root carries a version
\* attribute and contains a Bind section; otherwise it returns false.
C12_ValidExactlyWhenRulesMet ==
    \A p \in Procs :
        Validated(p) =>
            /\ resp[p].result = "true" <=> MeetsRules(loc[p].config)
            /\ resp[p].result = "true" => resp[p].error = "None"

\* the document has a VirtualHost entry under Server/VirtualHosts
HasHostEntry(doc) ==
    /\ IsDict(doc) /\ HasKey(doc, ElemKey("Server"))
    /\ IsDict(Get(doc, ElemKey("Server")))
    /\ HasKey(Get(doc, ElemKey("Server")), ElemKey("VirtualHosts"))
    /\ IsDict(Get(Get(doc, ElemKey("Server")), ElemKey("VirtualHosts")))
    /\ HasKey(Get(Get(doc, ElemKey("Server")), ElemKey("VirtualHosts")),
              ElemKey("VirtualHost"))

HostEntry(doc) ==
    Get(Get(Get(doc, ElemKey("Server")), ElemKey("VirtualHosts")), ElemKey("VirtualHost"))

\* entry i is a virtual host with this name
Named(hosts, i, vhost_name) ==
    /\ IsDict(hosts[i]) /\ HasKey(hosts[i], ElemKey("Name"))
    /\ Get(hosts[i], ElemKey("Name")) = VStr(vhost_name)

\* the configuration update_virtual_host found in the live file
Found(p) == parse_string(loc[p].live0).doc

\* update_virtual_host has replaced a host and handed the result to write_config
Replaced(p) ==
    /\ loc[p].op = "update_virtual_host"
    /\ pc[p] \in {"wc_backup", "wc_write", "done"}
    /\ loc[p].failed \notin {"read", "parse", "lookup", "notfound"}

\* C13: a single virtual host stored as one object is returned by
\* get_virtual_hosts as a one-element sequence, and update_virtual_host
\* writes it back as one object; a sequence of hosts is written back as a
\* sequence of the same length and order in which only the first entry with
\* the given name is replaced.
C13_SingularFormPreserved ==
    \A p \in Procs :
        /\ (loc[p].op = "get_virtual_hosts" /\ Done(p) /\ loc[p].exists0
            /\ parse_string(loc[p].live0).ok /\ HasHostEntry(Found(p))
            /\ IsDict(HostEntry(Found(p))))
           => /\ resp[p].result = "value"
              /\ loc[p].out = VList(<<HostEntry(Found(p))>>)
        /\ (Replaced(p) /\ IsDict(HostEntry(Found(p))))
           => /\ HostEntry(loc[p].config) = loc[p].vhost_config
              /\ ~IsList(HostEntry(loc[p].config))
              /\ (Done(p) /\ resp[p].result = "true")
                 => /\ live = dict_to_xml(loc[p].config, TRUE).xml
                    /\ IsDict(HostEntry(parse_string(live).doc))
        /\ (Replaced(p) /\ IsList(HostEntry(Found(p))))
           => LET old == HostEntry(Found(p)).elems
                  new == HostEntry(loc[p].config)
              IN  /\ IsList(new) /\ Len(new.elems) = Len(old)
                  /\ \E i \in 1..Len(old) :
                        /\ Named(old, i, loc[p].vhost_name)
                        /\ \A k \in 1..(i - 1) : ~Named(old, k, loc[p].vhost_name)
                        /\ new.elems[i] = loc[p].vhost_config
                        /\ \A k \in 1..Len(old) : k # i => new.elems[k] = old[k]
                  /\ (Done(p) /\ resp[p].result = "true")
                     => live = dict_to_xml(loc[p].config, TRUE).xml

\* the only virtual host of the file, stored as one object, has been replaced
\* and written back
C13_Witness ==
    \E p \in Procs :
        /\ Replaced(p) /\ Done(p) /\ resp[p].result = "true"
        /\ loc[p].live0 = XmlOneHost
        /\ IsDict(HostEntry(Found(p)))
        /\ IsDict(HostEntry(parse_string(live).doc))
        /\ live # loc[p].live0

\* no virtual host of the document has this name
NoHostNamed(doc, vhost_name) ==
    HasHostEntry(doc) =>
        LET hosts == IF IsList(HostEntry(doc)) THEN HostEntry(doc).elems
                     ELSE <<HostEntry(doc)>>
        IN  \A i \in 1..Len(hosts) : ~Named(hosts, i, vhost_name)

\* C14: when the live configuration is readable and no virtual host has the
\* given name, update_virtual_host returns false without raising and neither
\* overwrites the live file nor creates a backup file.
C14_UnknownHostReturnsFalse ==
    \A p \in Procs :
        (/\ loc[p].op = "update_virtual_host" /\ Done(p)
         /\ loc[p].exists0 /\ parse_string(loc[p].live0).ok
         /\ NoHostNamed(Found(p), loc[p].vhost_name))
        => /\ resp[p].result = "false"
           /\ live = loc[p].live0 /\ fileExists = loc[p].exists0
           /\ backups = loc[p].backups0

\* a finished call of a client method
Called(p, methods) == loc[p].op \in methods /\ Done(p)

\* C15: a resource operation of the client that meets a transport failure or
\* a response with a status outside 200..299 fails with OMEAPIException, which
\* carries the status and the body text; no other exception reaches the caller.
C15_ErrorsAreOMEAPIException ==
    \A p \in Procs :
        (/\ Called(p, ResourceMethods)
         /\ \/ loc[p].exchange.kind = "transport"
            \/ loc[p].exchange.status \notin 200..299)
        => /\ resp[p].result = "raise" /\ resp[p].error = "OMEAPIException"
           /\ loc[p].exchange.kind = "response"
              => /\ resp[p].code = loc[p].exchange.status
                 /\ resp[p].body = loc[p].exchange.body

\* the request has failed: a transport error or an HTTP error status (4xx, 5xx)
RequestFailed(x) == x.kind = "transport" \/ x.status \in 400..599

\* C16: health_check, get_server_stats and get_stream_stats never propagate
\* an OMEAPIException: when the request fails with a transport error or an
\* HTTP error status, health_check returns false and the stats methods return
\* an empty result; health_check returns true exactly when the request
\* succeeded.
C16_GracefulDegradation ==
    \A p \in Procs :
        Called(p, StatsMethods \cup {"health_check"}) =>
            /\ resp[p].error # "OMEAPIException"
            /\ RequestFailed(loc[p].exchange) =>
                  resp[p].result = (IF loc[p].op = "health_check" THEN "false" ELSE "empty")
            /\ loc[p].op = "health_check" =>
                  /\ resp[p].result \in {"true", "false"}
                  /\ resp[p].result = "true" <=> ~RequestFailed(loc[p].exchange)

\* a stats method has answered a 404 with an empty result
C16_Witness ==
    \E p \in Procs :
        /\ Called(p, StatsMethods) /\ resp[p].result = "empty"
        /\ loc[p].exchange.kind = "response" /\ loc[p].exchange.status = 404

\* C17: get_status never propagates an exception of the remote client: with
\* no client configured, with a failing health check, or with
\* get_server_stats raising, it returns a structured result, and this result
\* has an 'error' field.
C17_StatusReportsError ==
    \A p \in Procs :
        (loc[p].op = "get_status" /\ Done(p)) =>
            /\ resp[p].status = 200
            /\ {"api_connected", "api_url"} \subseteq resp[p].fields
            /\ loc[p].failed \in {"client", "health", "stats"} => "error" \in resp[p].fields

\* C18: for every document d that parse_string produces,
\* parse_string(dict_to_xml(d)) equals d.
C18_RoundTrip ==
    \A p \in Procs :
        (loc[p].op = "round_trip" /\ Done(p) /\ loc[p].failed # "parse")
        => /\ resp[p].result = "value"
           /\ loc[p].out = loc[p].config

\* a round trip of a document in which one element occurs once and another
\* twice, under a parent with attributes and text
C18_Witness ==
    \E p \in Procs :
        /\ loc[p].op = "round_trip" /\ Done(p) /\ resp[p].result = "value"
        /\ loc[p].new_xml =
              Element("a", << <<"x", <<"1">>>>, <<"y", <<"2">>>> >>, <<Text(<<NL, Indent>>)>>,
                      Element("b", <<>>, <<>>, <<>>, <<>>)
                      \o Element("a", <<>>, <<Text(<<"t">>)>>, <<>>, <<>>),
                      <<Text(<<"u">>)>>)
        /\ loc[p].text # loc[p].new_xml

\* update_config has committed its snapshot
Committed(p) ==
    /\ loc[p].op = "update_config"
    /\ \/ pc[p] = "uc_audit"
       \/ Done(p) /\ (resp[p].status = 200 \/ loc[p].failed = "audit")

\* C19: with two update_config requests in flight, version assignment by
\* get_latest_version() + 1 followed by the insert loses an update: when both
\* requests have read the same latest version and both have committed, two
\* committed snapshots carry the same version number.
C19_LostUpdate ==
    \A p, q \in Procs :
        (p # q /\ Committed(p) /\ Committed(q) /\ loc[p].version = loc[q].version)
        => \E i, j \in 1..Len(snapshots) :
              /\ i # j
              /\ snapshots[i].version = loc[p].version
              /\ snapshots[j].version = loc[q].version

\* both requests have committed and not yet answered, and their two
\* snapshots carry the same version
C19_Witness ==
    /\ \A p \in Procs : loc[p].op = "update_config" /\ pc[p] = "uc_audit"
    /\ \E i, j \in 1..Len(snapshots) :
          i # j /\ snapshots[i].version = snapshots[j].version

RestoreFailed(p) ==
    /\ loc[p].op = "restore_snapshot" /\ Done(p) /\ resp[p].status = 500
    /\ loc[p].failed \in {"parse", "invalid", "backup", "serialize", "write"}

\* C21: in a restore the write of the live file precedes the activation:
\* at the activation the file has been written, and when
\* restore_from_snapshot fails activate is not called and every is_active
\* flag is as it was before the request.
C21_WriteBeforeActivate ==
    \A p \in Procs :
        /\ (loc[p].op = "restore_snapshot" /\ pc[p] \in {"wc_backup", "wc_write"})
           => Flags(snapshots) = loc[p].flags0
        /\ (loc[p].op = "restore_snapshot" /\ pc[p] = "rs_activate")
           => /\ Flags(snapshots) = loc[p].flags0
              /\ fileExists /\ live = dict_to_xml(loc[p].config, TRUE).xml
        /\ RestoreFailed(p) => Flags(snapshots) = loc[p].flags0

\* the write of a restore has failed while another snapshot was active: that
\* one is still the active one
C21_Witness ==
    \E p \in Procs :
        /\ RestoreFailed(p) /\ loc[p].failed = "write"
        /\ get_active(snapshots) # {}
        /\ loc[p].snapshot_id \notin get_active(snapshots)

\* C22: the virtual-host count of extract_server_info equals the number of
\* virtual hosts get_virtual_hosts returns for the same configuration, for
\* no, one (stored as a single object) and several virtual hosts.
C22_CountMatchesHosts ==
    \A p \in Procs :
        (loc[p].op = "get_server_info" /\ Done(p) /\ parse_string(loc[p].live0).ok
         /\ get_virtual_hosts(Found(p)).ok /\ IsList(get_virtual_hosts(Found(p)).val))
        => /\ resp[p].result = "value"
           /\ resp[p].count = Len(get_virtual_hosts(Found(p)).val.elems)

\* write_config has made its backup copy in a second in which an earlier
\* write_config had made one
Collision(p) ==
    /\ loc[p].op \in {"write_config", "restore_from_snapshot", "update_virtual_host"}
    /\ pc[p] \in {"wc_write", "done"}
    /\ loc[p].backup_path # -1
    /\ loc[p].now0 \in DOMAIN loc[p].backups0

\* the content saved by the first of the two copies was held by that file only,
\* and differs from what the first write installed
OnlyCopy(p) ==
    LET first == loc[p].backups0[loc[p].now0]
    IN  /\ first # loc[p].live0
        /\ \A t \in DOMAIN loc[p].backups0 :
              t # loc[p].now0 => loc[p].backups0[t] # first

\* C23: two write_config(backup=true) calls within one second use the same
\* backup path; the second copy overwrites the first, no further file is
\* created, and no backup file holds any more the content that was live
\* before the first of the two writes.
C23_BackupCollision ==
    \A p \in Procs :
        Collision(p) =>
            /\ loc[p].backup_path = loc[p].now0
            /\ backups[loc[p].now0] = loc[p].live0
            /\ DOMAIN backups = DOMAIN loc[p].backups0
            /\ OnlyCopy(p) =>
                  \A t \in DOMAIN backups : backups[t] # loc[p].backups0[loc[p].now0]

\* the second write of a second has succeeded and the content saved by the
\* first copy is in no backup file
C23_Witness ==
    \E p \in Procs :
        /\ Collision(p) /\ OnlyCopy(p)
        /\ Done(p) /\ resp[p].result = "true"
        /\ \A t \in DOMAIN backups : backups[t] # loc[p].backups0[loc[p].now0]

\* the columns of a snapshot other than is_active
Content(row) == [row EXCEPT !.is_active = FALSE]

\* C24: snapshots are immutable records: no step changes the version,
\* configuration_data, description or user_id of an existing snapshot or
\* deletes a snapshot; of an existing snapshot only is_active ever changes.
C24_SnapshotsImmutable ==
    [][/\ Len(snapshots') >= Len(snapshots)
       /\ \A i \in 1..Len(snapshots) : Content(snapshots'[i]) = Content(snapshots[i])
      ]_vars

\* a restore has flipped is_active of the first of two snapshots, whose
\* other columns are those of the first update
C24_Witness ==
    /\ Len(snapshots) >= 2
    /\ get_active(snapshots) = {1}
    /\ Content(snapshots[1]) = NewSnapshot(1, "Configuration update", XmlA, 1)
    /\ \E p \in Procs : loc[p].op = "restore_snapshot" /\ pc[p] = "rs_audit"

\* C27: get_active returns the currently active configuration: between
\* requests, if some snapshot has is_active = true then the live
\* configuration file holds the document stored in that snapshot (stated for
\* the runs in which no I/O or database failure happened).
C27_ActiveIsLive ==
    (faults = 0 /\ \A p \in Procs : Idle(p)) =>
        \A i \in get_active(snapshots) :
            /\ fileExists
            /\ parse_string(live) = parse_string(snapshots[i].configuration_data)

\* the restore request of p has been answered 200
Restored(p) ==
    /\ loc[p].op = "restore_snapshot"
    /\ Done(p)
    /\ resp[p].status = 200

\* C30: after a successful restore of snapshot S, read_config returns the
\* document obtained by parsing S.configuration_data, whatever content was
\* live before the restore.
C30_RestoredDocument ==
    \A p \in Procs :
        Restored(p) =>
            /\ fileExists
            /\ parse_string(live).ok
            /\ parse_string(live) = parse_string(RestoreSource(p))

\* a restore answered 200 over a file that held another document
C30_Witness ==
    \E p \in Procs :
        /\ Restored(p)
        /\ loc[p].exists0
        /\ parse_string(loc[p].live0).ok
        /\ parse_string(loc[p].live0) # parse_string(RestoreSource(p))

\* the request of p was sent by a user who is no admin
ByNonAdmin(p) ==
    /\ loc[p].user \in Accounts
    /\ ~is_admin(UserRole[loc[p].user])

\* C25: secret settings are hidden from non-admins: no response to a user
\* who is not an admin (settings reads, audit-log listing) contains the value
\* of a setting whose is_secret is true, before or after an admin updates it.
C25_SecretsHidden ==
    \A p \in Procs :
        (Done(p) /\ ByNonAdmin(p)) =>
            \A k \in SettingKeys :
                (is_secret(k) /\ settings[k] # <<>>) => settings[k] \notin resp[p].seen

\* the routes that change the file, the snapshots, the settings, the users,
\* the application or a remote resource
MutatingOps ==
    {"update_config", "restore_snapshot", "update_settings", "reload_settings",
     "create_user", "create_vhost", "update_vhost", "delete_vhost", "create_app",
     "update_app", "delete_app", "delete_stream"}

\* since the request of p started the file, the snapshots, the settings, the
\* users or the media server's record have changed
Mutated(p) ==
    \/ live # loc[p].live0
    \/ Len(snapshots) # Len(loc[p].flags0)
    \/ Flags(snapshots) # loc[p].flags0
    \/ settings # loc[p].settings0
    \/ Len(users) # loc[p].users0
    \/ Len(remote) # loc[p].remote0

\* the request of p has been answered 2xx
Succeeded(p) ==
    /\ Done(p)
    /\ 200 <= resp[p].status /\ resp[p].status < 300

\* C26: the audit trail tracks all user actions: every request that
\* successfully mutates state (update_config, restore, create/update/delete
\* of a virtual host, application or stream, settings update, user creation)
\* appends an audit log entry attributed to the acting user.
C26_MutationsAudited ==
    \A p \in Procs :
        (loc[p].op \in MutatingOps /\ Succeeded(p) /\ Mutated(p)) =>
            /\ Len(audit) > loc[p].audit0
            /\ audit[Len(audit)].user_id = loc[p].user

\* a user whose role grants no 'write': a viewer or an unknown role
NoWrite(user) ==
    /\ user \in Accounts
    /\ UserRole[user] \notin {ROLE_ADMIN, ROLE_OPERATOR}

\* C28: a user whose role grants no 'write' permission can never change the
\* live configuration file, the snapshot store, the active-snapshot flag,
\* the settings table or a remote resource: the step that takes such a
\* user's request to a mutating endpoint answers 403 and changes none of
\* them.
C28_NoWriteNoChange ==
    [][\A p \in SeqProcs :
          (Idle(p) /\ loc'[p].op \in MutatingOps /\ NoWrite(loc'[p].user)) =>
              /\ pc'[p] = "done"
              /\ resp'[p].status = 403
              /\ UNCHANGED <<fileExists, live, backups, snapshots, settings, remote>>
      ]_vars

\* a guest's PUT /config was answered 403 after the media server had carried
\* out a request of another user
C28_Witness ==
    \E p \in SeqProcs :
        /\ Done(p)
        /\ loc[p].op = "update_config"
        /\ UserRole[loc[p].user] = "guest"
        /\ resp[p].status = 403
        /\ Len(remote) = 1
        /\ live = loc[p].live0 /\ Len(snapshots) = Len(loc[p].flags0)

\* C29: after any sequence of settings updates and reloads the api_url that
\* get_status reports (config OME_API_URL) is the base URL the client used
\* for that status check connects to.
C29_ClientFollowsConfig ==
    \A p \in Procs :
        (loc[p].op = "get_status" /\ Done(p)) =>
            rstrip(resp[p].api_url) = loc[p].target

====
